---- MODULE Spec2Model ----
(***************************************************************************)
(* The streaming transport of src/src/datastream.ts (class Datastream,     *)
(* in-process variant): two channel sockets, lazy connect-on-subscribe,    *)
(* reconnect timers, resubscription, and the transaction dedup filter.     *)
(*                                                                         *)
(* One step of the model is one run-to-completion task of the event loop:  *)
(* a call of the public API, a socket event (open, error, close, message)  *)
(* or a reconnect timer, together with the promise continuations it        *)
(* releases (the `await Promise.all` of connect() resumes in microtasks    *)
(* that run before the next task).                                         *)
(*                                                                         *)
(* Environment assumptions: `new WebSocket(url)` does not throw, listeners *)
(* registered by the caller do not throw, and a socket delivers message    *)
(* events only while its readyState is OPEN.                               *)
(***************************************************************************)
EXTENDS Integers, Sequences, FiniteSets, TLC

\* ---- bounds of the model ------------------------------------------------
\* the length of the behaviours explored: steps (API calls, socket events,
\* timers, inbound frames) of the lifecycle specification, of the message
\* specification, of the subscription specification and of the worker
\* specification
MaxSteps == 8
MaxMsgSteps == 9
MaxSubSteps == 8
MaxWorkerSteps == 8
MaxRouteSteps == 6
\* the longest array payload
MaxArray == 2
\* the handle.on() calls of one behaviour
MaxRegistrations == 2
\* steps of the facade specification
MaxFacadeSteps == 3
\* the trade records of a buffer
MaxTrades == 2
\* the events of a list given to processEvents
MaxEvents == 3
\* the events of one chunk of processEventsAsync: CHUNK_SIZE is 100000 in
\* event-processor.ts, scaled down so that a list takes several chunks
CHUNK_SIZE == 2
\* the backoff policy: attempt counts 0..MaxBackoffs, and Math.random()
\* takes the values u / RandomSteps for u in 0..RandomSteps-1
MaxBackoffs == 6
RandomSteps == 4

\* ---- rooms, strings -----------------------------------------------------
\* A room key is a string; it is modelled as the sequence of its lexical
\* pieces so that String.includes is a real substring search.
RoomPrice == <<"price", ":", "A">>
RoomTx == <<"transaction", ":", "A">>
Rooms == {RoomPrice, RoomTx}
\* `price-by-token:${message.data.token}`
PriceByToken(token) == <<"price-by-token", ":", token>>
Tokens == {"A"}
Keys == Rooms \cup {PriceByToken(t) : t \in Tokens}

includes(s, needle) ==
    \E i \in 1..(Len(s) - Len(needle) + 1) :
        SubSeq(s, i, i + Len(needle) - 1) = needle

\* ---- sockets ------------------------------------------------------------
NoSock == 0
\* Every connect attempt takes a step (an API call or a reconnect timer).
MaxAttempts ==
    CHOOSE m \in {MaxSteps, MaxMsgSteps, MaxSubSteps, MaxWorkerSteps} :
        \A k \in {MaxSteps, MaxMsgSteps, MaxSubSteps, MaxWorkerSteps} : k <= m
Attempts == 1..MaxAttempts
SockIds == 1..(2 * MaxAttempts)
\* The n-th attempt's createSocket('main') is socket 2n-1, its
\* createSocket('transaction') is socket 2n.
MainOf(a) == 2 * a - 1
TxOf(a) == 2 * a
TypeOf(s) == IF s % 2 = 1 THEN "main" ELSE "transaction"
AttemptOf(s) == (s + 1) \div 2

TxIds == {"tx1", "tx2"}
NoTx == "none"
NoRoom == <<>>

VARIABLES
    \* fields of Datastream
    socket, transactionSocket, reconnectAttempts, subscribedRooms,
    transactions, autoReconnect, isConnecting,
    \* EventEmitter: number of listeners per room key, and whether an
    \* 'error' listener is registered
    listeners, errorListener,
    \* environment: the readyState of every WebSocket created, the sockets
    \* whose onopen ran (onmessage/onclose attached), the Promise.all of
    \* every attempt, the number of pending setTimeout callbacks
    readyState, opened, attempt, timers,
    \* the last step: its operation, the events it emitted, the frames it
    \* sent, the inbound frame it handled
    op, emitted, sent, lastFrame,
    \* history
    left, joined, lazy, lazyJoins, lazyConnects, phase, cancelled, preRooms,
    joinsSince, seenTx, deliveredTx,
    \* the backoff policy: the three configuration fields of Datastream
    \* (randomizationFactor in hundredths) and the last delay reconnect()
    \* computed
    reconnectDelay, reconnectDelayMax, randomizationFactor, waited,
    \* worker mode. On the main thread: the useWorker flag, whether
    \* this.worker is set, whether the 'message' handler of
    \* connectWithWorker is still waiting for the worker's answer, and the
    \* messages posted in each direction and not yet handled. In the
    \* worker: its globals mainSocket, transactionSocket, subscribedRooms,
    \* reconnectAttempts, and its pending setTimeout callbacks.
    useWorker, worker, waiting, toWorker, toMain,
    workerMainSocket, workerTransactionSocket, workerSubscribedRooms,
    workerReconnectAttempts, workerTimers,
    \* subscription handles: the wrapped callbacks registered with
    \* handle.on(), in registration order, and how many were ever
    \* registered; the callback invocations of the last step and the inbound
    \* frame it handled
    handlers, registered, calls, inbound,
    \* history: the registration the last unsubscribe() of a handle removed,
    \* the sockets that received a frame JSON.parse rejected
    removed, failed,
    \* history: the room and the socket of the frame that put the last
    \* transaction id into the dedup set
    carrier,
    \* the facade: the last call on datastream.subscribe and whether it threw
    call, threw,
    \* event-processor.ts: the argument and the result of
    \* decodeBinaryEvents, the argument and the result of processEvents
    buffer, decoded, events, stats,
    \* history: the wallet table and the trades the buffer was laid out from
    layout,
    \* the current price the caller of processEvents holds
    quotedPrice,
    \* Date.now() in milliseconds, and the processEventsAsync call: its
    \* locals, its pending setTimeout, the progress values it reported, and
    \* (history) the yields, the chunks and the indexes it processed
    clock, job

fields == <<socket, transactionSocket, reconnectAttempts, subscribedRooms,
            transactions, autoReconnect, isConnecting>>
emitter == <<listeners, errorListener>>
env == <<readyState, opened, attempt, timers>>
outs == <<op, emitted, sent, lastFrame>>
hist == <<joined, lazy, lazyJoins, lazyConnects, phase, cancelled, preRooms,
          joinsSince, seenTx, deliveredTx>>
policy == <<reconnectDelay, reconnectDelayMax, randomizationFactor, waited>>
wk == <<useWorker, worker, waiting, toWorker, toMain, workerMainSocket,
        workerTransactionSocket, workerSubscribedRooms,
        workerReconnectAttempts, workerTimers>>
routing == <<handlers, registered, calls, inbound, removed, failed, carrier>>
facade == <<call, threw>>
proc == <<buffer, decoded, events, stats, layout, quotedPrice, clock, job>>
ext == <<routing, facade, proc>>
vars == <<fields, emitter, env, outs, hist, left, policy, wk, ext>>

\* emit(ev, ...): the event, its argument (a scope, an attempt count or a
\* room key) and the number of listeners called. `connected` carries no
\* argument in the code; n records the attempt that emitted it.
Ev(e, scope, n, key, k) ==
    [ev |-> e, scope |-> scope, n |-> n, key |-> key, called |-> k]
EvConnected(a) == Ev("connected", "", a, <<>>, 0)
EvError == Ev("error", "", 0, <<>>, 0)
EvDisconnected(scope) == Ev("disconnected", scope, 0, <<>>, 0)
EvReconnecting(n) == Ev("reconnecting", "", n, <<>>, 0)
EvRoom(key, k) == Ev("room", "", 0, key, k)
Emitted(e) == \E i \in 1..Len(emitted) : emitted[i].ev = e

\* socket.send(JSON.stringify({type, room})) on socket s
Frame(t, room, s) == [type |-> t, room |-> room, sock |-> s]
JoinsFor(frames, room) ==
    Cardinality({f \in frames : f.type = "join" /\ f.room = room})

NoFrame == [tx |-> NoTx, nth |-> 0, sock |-> NoSock]

nAttempts == Cardinality({a \in Attempts : attempt[a] # "none"})

\* socket && socket.readyState === WebSocket.OPEN
isOpen(rs, s) == s # NoSock /\ rs[s] = "open"

\* isConnected(), lines 1131-1136
isConnected == isOpen(readyState, socket) /\ isOpen(readyState, transactionSocket)

\* Variant: every room goes to the main channel.
roomSocket_Main(room, s, ts) == s
\* room.includes('transaction') ? this.transactionSocket : this.socket
roomSocket(room, s, ts) ==
    IF includes(room, <<"transaction">>) THEN ts ELSE s

\* Variant: a pass that runs as soon as either channel is open.
resubscribeGuard_EitherOpen(s, ts, rs) == isOpen(rs, s) \/ isOpen(rs, ts)
\* resubscribeToRooms(), lines 1105-1120: the join frames it sends, given
\* the fields as they are when it runs
resubscribeGuard(s, ts, rs) == isOpen(rs, s) /\ isOpen(rs, ts)

resubscribeToRooms(s, ts, rs, rooms) ==
    IF resubscribeGuard(s, ts, rs)
    THEN {Frame("join", r, roomSocket(r, s, ts)) : r \in rooms}
    ELSE {}

\* ---- the backoff policy --------------------------------------------------
\* constructor, lines 524-526: config.x || default. A configuration value
\* of 0 stands for every falsy one (0, undefined, NaN).
DefaultReconnectDelay == 2500
DefaultReconnectDelayMax == 4500
\* 0.5, in hundredths
DefaultRandomizationFactor == 50
orDefault(v, d) == IF v = 0 THEN d ELSE v

RECURSIVE pow2(_)
\* Math.pow(2, n)
pow2(n) == IF n = 0 THEN 1 ELSE 2 * pow2(n - 1)
\* Math.min(a, b)
min(a, b) == IF a <= b THEN a ELSE b

\* reconnect(), lines 986-992. delay is in ms, jitter in hundredths of a
\* ms, and the wait (the local reconnectDelay handed to setTimeout) in
\* 1/(100 * RandomSteps) ms, for Math.random() = u / RandomSteps.
delay(base, max, n) == min(base * pow2(n), max)
\* Variant: a jitter twice as wide.
jitter_Double(d, factor) == 2 * d * factor
jitter(d, factor) == d * factor
reconnectWait(d, factor, u) == d * 100 * RandomSteps + u * jitter(d, factor)

NoWait == [n |-> 0, delay |-> 0, wait |-> 0, u |-> RandomSteps]

\* ---- inbound frames ----------------------------------------------------
\* event.data is a JSON text: `json` says whether JSON.parse accepts it, and
\* the other fields are those of the parsed object {type, room, data}. A
\* payload is an object {tx?, token?}, an array of such objects, or null;
\* NoTx and NoToken stand for an absent field (undefined).
NoToken == "undefined"
Item(tx, token) == [tx |-> tx, token |-> token]
NullItem == Item("null", "null")
Object(tx, token) == [kind |-> "object", items |-> <<Item(tx, token)>>]
Array(items) == [kind |-> "array", items |-> items]
Null == [kind |-> "null", items |-> <<>>]
Text(json, type, room, data) ==
    [json |-> json, type |-> type, room |-> room, data |-> data]
DataFrame(room, data) == Text(TRUE, "message", room, data)
NotJson == Text(FALSE, "", NoRoom, Null)
NoInbound == Text(TRUE, "none", NoRoom, Null)
NoRegistration == [id |-> 0, room |-> NoRoom, cb |-> ""]
NoCarrier == [room |-> NoRoom, sock |-> NoSock]

\* ---- the facade and event-processor.ts at rest ---------------------------
\* a number argument: a finite value or NaN
Num(v) == [nan |-> FALSE, v |-> v]
NaN == [nan |-> TRUE, v |-> 0]
NoCall == [method |-> "none", room |-> NoRoom, market |-> "", percentage |-> Num(0)]
NotDecoded == [error |-> "none", events |-> <<>>]
NotProcessed == [error |-> "none", frames |-> <<>>]
NoLayout == [wallets |-> <<>>, trades |-> <<>>]
NoJob ==
    [state |-> "idle", onProgress |-> FALSE, chunk |-> 0, periods |-> <<>>,
     currentPrice |-> 0, currentTimestamp |-> 0, yields |-> 0, chunks |-> 0,
     processed |-> <<>>, progress |-> <<>>, result |-> <<>>]
ProcIdle ==
    /\ buffer = <<>>
    /\ decoded = NotDecoded
    /\ events = <<>>
    /\ stats = NotProcessed
    /\ layout = NoLayout
    /\ quotedPrice = 0
    /\ clock = 0
    /\ job = NoJob

\* new Datastream(config), lines 516-533, with the default backoff policy
InitDatastream(n) ==
    /\ left = n
    /\ reconnectDelay = orDefault(0, DefaultReconnectDelay)
    /\ reconnectDelayMax = orDefault(0, DefaultReconnectDelayMax)
    /\ randomizationFactor = orDefault(0, DefaultRandomizationFactor)
    /\ waited = NoWait
    /\ socket = NoSock
    /\ transactionSocket = NoSock
    /\ reconnectAttempts = 0
    /\ subscribedRooms = {}
    /\ transactions = {}
    /\ autoReconnect \in BOOLEAN
    /\ isConnecting = FALSE
    /\ listeners = [k \in Keys |-> 0]
    /\ errorListener \in BOOLEAN
    /\ readyState = [s \in SockIds |-> "none"]
    /\ opened = {}
    /\ attempt = [a \in Attempts |-> "none"]
    /\ timers = 0
    /\ op = "new"
    /\ emitted = <<>>
    /\ sent = {}
    /\ lastFrame = NoFrame
    /\ joined = [r \in Rooms |-> 0]
    /\ lazy = NoRoom
    /\ lazyJoins = 0
    /\ lazyConnects = 0
    /\ phase = "init"
    /\ cancelled = FALSE
    /\ preRooms = {}
    /\ joinsSince = [r \in Rooms |-> 0]
    /\ seenTx = [t \in TxIds |-> 0]
    /\ deliveredTx = [t \in TxIds |-> 0]
    /\ worker = FALSE
    /\ waiting = FALSE
    /\ toWorker = <<>>
    /\ toMain = <<>>
    /\ workerMainSocket = NoSock
    /\ workerTransactionSocket = NoSock
    /\ workerSubscribedRooms = {}
    /\ workerReconnectAttempts = 0
    /\ workerTimers = 0
    /\ handlers = <<>>
    /\ registered = 0
    /\ calls = <<>>
    /\ inbound = NoInbound
    /\ removed = NoRegistration
    /\ carrier = NoCarrier
    /\ failed = {}
    /\ call = NoCall
    /\ threw = FALSE

InitWith(n) == InitDatastream(n) /\ ProcIdle

\* constructor, line 527: useWorker is config.useWorker || false
Init == InitWith(MaxSteps) /\ useWorker = FALSE

\* one step of a bounded behaviour
Tick == left > 0 /\ left' = left - 1

\* ---- history bookkeeping (no counterpart in the code) -------------------
\* joined[r]: join frames for r sent on the socket its channel's field
\* holds, since that socket opened. `held`/`held2` are the fields before
\* and after the step.
Joined(frames, s, ts, s2, ts2) ==
    [r \in Rooms |->
        (IF roomSocket(r, s, ts) = roomSocket(r, s2, ts2) THEN joined[r] ELSE 0)
        + (IF roomSocket(r, s2, ts2) # NoSock
           THEN Cardinality({f \in frames : f.type = "join" /\ f.room = r
                                /\ f.sock = roomSocket(r, s2, ts2)})
           ELSE 0)]

\* joinsSince[r]: join frames for r sent since the last disconnect(), until
\* the caller subscribes again
Since(frames, ph) ==
    [r \in Rooms |-> IF ph = "init" THEN 0 ELSE joinsSince[r] + JoinsFor(frames, r)]

\* the client is Disconnected: no channel held, no attempt in flight, no
\* retry pending
Disconnected ==
    /\ socket = NoSock
    /\ transactionSocket = NoSock
    /\ ~isConnecting
    /\ timers = 0

\* ---- connect() ----------------------------------------------------------
\* Variant: only the held sockets are looked at, not the connecting flag.
connectReturnsEarly_HeldOnly(s, ts, connecting) == s # NoSock /\ ts # NoSock
\* lines 544-550: already connected, or already connecting
connectReturnsEarly(s, ts, connecting) ==
    (s # NoSock /\ ts # NoSock) \/ connecting

\* The synchronous part of connect(): the early returns, else isConnecting
\* and the two createSocket() calls of Promise.all.
DoConnect ==
    IF connectReturnsEarly(socket, transactionSocket, isConnecting)
    THEN UNCHANGED <<isConnecting, readyState, attempt>>
    ELSE /\ nAttempts < MaxAttempts
         /\ isConnecting' = TRUE
         /\ attempt' = [attempt EXCEPT ![nAttempts + 1] = "pending"]
         /\ readyState' = [readyState EXCEPT
                              ![MainOf(nAttempts + 1)] = "connecting",
                              ![TxOf(nAttempts + 1)] = "connecting"]

\* Variant: the attempt resolves on the first socket that opens.
allResolved_Any(a, op_) == MainOf(a) \in op_ \/ TxOf(a) \in op_
\* Promise.all([createSocket('main'), createSocket('transaction')]) is
\* fulfilled once both onopen handlers have called resolve().
allResolved(a, op_) == MainOf(a) \in op_ /\ TxOf(a) \in op_

\* ---- reconnect(), lines 981-998 -----------------------------------------
\* Variant: a reconnect() that arms its timer whatever autoReconnect says.
reconnectTimers_Always(auto, t) == t + 1
reconnectEvents(auto, n) == IF auto THEN <<EvReconnecting(n)>> ELSE <<>>
reconnectTimers(auto, t) == IF auto THEN t + 1 ELSE t

\* connect(): the catch block, lines 562-569. emit('error', e) throws when
\* no 'error' listener is registered, and then reconnect() is not reached.
catchEvents(auto, hasListener, n) ==
    <<EvError>> \o (IF hasListener THEN reconnectEvents(auto, n) ELSE <<>>)
catchTimers(auto, hasListener, t) ==
    IF hasListener THEN reconnectTimers(auto, t) ELSE t

\* The promise connect() returned for attempt a: fulfilled after line 561;
\* after a failed Promise.all it is fulfilled when the catch block runs to
\* its end and rejected when emit('error', e) throws out of it.
connectPromise(a, hasListener) ==
    CASE attempt[a] = "resolved" -> "resolved"
      [] attempt[a] = "rejected" ->
            IF hasListener THEN "resolved" ELSE "rejected"
      [] OTHER -> "pending"

\* ---- the public API -----------------------------------------------------
Connect ==
    /\ Tick
    /\ UNCHANGED <<policy, wk, ext>>
    /\ DoConnect
    /\ op' = "connect"
    /\ emitted' = <<>>
    /\ sent' = {}
    /\ lastFrame' = NoFrame
    /\ phase' = IF phase = "disconnected" THEN "reconnected" ELSE phase
    /\ cancelled' = FALSE
    /\ UNCHANGED <<socket, transactionSocket, reconnectAttempts,
                   subscribedRooms, transactions, autoReconnect, emitter,
                   opened, timers, joined, lazy, lazyJoins, lazyConnects,
                   preRooms, joinsSince, seenTx, deliveredTx>>

\* socket.close() on a held socket: OPEN becomes CLOSING, the close event
\* comes later
closeCall(rs, s) ==
    IF isOpen(rs, s) THEN [rs EXCEPT ![s] = "closing"] ELSE rs

\* Variant: a disconnect() that keeps the dedup set.
disconnectTransactions_Keep(txs) == txs
\* Variant: a disconnect() that keeps the tracked rooms.
disconnectRooms_Keep(rooms) == rooms
\* disconnect(), lines 956-976
disconnectRooms(rooms) == {}
disconnectTransactions(txs) == {}

Disconnect ==
    /\ Tick
    /\ UNCHANGED <<policy, wk, ext>>
    /\ readyState' = closeCall(closeCall(readyState, socket), transactionSocket)
    /\ socket' = NoSock
    /\ transactionSocket' = NoSock
    /\ subscribedRooms' = disconnectRooms(subscribedRooms)
    /\ transactions' = disconnectTransactions(transactions)
    /\ op' = "disconnect"
    /\ emitted' = <<EvDisconnected("all")>>
    /\ sent' = {}
    /\ lastFrame' = NoFrame
    /\ joined' = [r \in Rooms |-> 0]
    /\ lazy' = NoRoom
    /\ lazyJoins' = 0
    /\ lazyConnects' = 0
    /\ phase' = "disconnected"
    /\ cancelled' = isConnecting
    /\ preRooms' = subscribedRooms
    /\ joinsSince' = [r \in Rooms |-> 0]
    /\ seenTx' = [t \in TxIds |-> 0]
    /\ deliveredTx' = [t \in TxIds |-> 0]
    /\ UNCHANGED <<reconnectAttempts, autoReconnect, isConnecting, emitter,
                   opened, attempt, timers>>

\* _subscribe(room), lines 1006-1022
subscribeSends(room, s, ts, rs) == isOpen(rs, roomSocket(room, s, ts))

Subscribe(room) ==
    /\ Tick
    /\ UNCHANGED <<policy, wk, ext>>
    /\ subscribedRooms' = subscribedRooms \cup {room}
    /\ IF subscribeSends(room, socket, transactionSocket, readyState)
       THEN /\ sent' = {Frame("join", room,
                              roomSocket(room, socket, transactionSocket))}
            /\ UNCHANGED <<isConnecting, readyState, attempt>>
       ELSE /\ sent' = {}
            /\ DoConnect
    /\ op' = "subscribe"
    /\ emitted' = <<>>
    /\ lastFrame' = NoFrame
    /\ joined' = Joined(sent', socket, transactionSocket,
                        socket, transactionSocket)
    /\ lazy' = IF Disconnected THEN room
               ELSE IF room = lazy /\ sent' # {} THEN NoRoom ELSE lazy
    /\ lazyJoins' = IF lazy' = lazy THEN lazyJoins ELSE 0
    /\ lazyConnects' =
          IF lazy' = NoRoom THEN 0
          ELSE IF Disconnected THEN (IF attempt' # attempt THEN 1 ELSE 0)
          ELSE IF isConnecting
               THEN lazyConnects + (IF attempt' # attempt THEN 1 ELSE 0)
          ELSE lazyConnects
    /\ phase' = "init"
    /\ cancelled' = FALSE
    /\ joinsSince' = Since(sent', phase')
    /\ UNCHANGED <<socket, transactionSocket, reconnectAttempts,
                   transactions, autoReconnect, emitter, opened, timers, preRooms, seenTx, deliveredTx>>

\* unsubscribe(room), lines 1084-1100
Unsubscribe(room) ==
    /\ Tick
    /\ UNCHANGED <<policy, wk, ext>>
    /\ subscribedRooms' = subscribedRooms \ {room}
    /\ sent' = IF isOpen(readyState, roomSocket(room, socket, transactionSocket))
               THEN {Frame("leave", room,
                           roomSocket(room, socket, transactionSocket))}
               ELSE {}
    /\ op' = "unsubscribe"
    /\ emitted' = <<>>
    /\ lastFrame' = NoFrame
    /\ lazy' = IF room = lazy THEN NoRoom ELSE lazy
    /\ lazyJoins' = IF room = lazy THEN 0 ELSE lazyJoins
    /\ lazyConnects' = IF room = lazy THEN 0 ELSE lazyConnects
    /\ joined' = [joined EXCEPT ![room] = 0]
    /\ UNCHANGED <<socket, transactionSocket, reconnectAttempts,
                   transactions, autoReconnect, isConnecting, emitter, env,
                   phase, cancelled, preRooms, joinsSince, seenTx,
                   deliveredTx>>

\* handle.on(callback) / datastream.on(key, callback)
On(key) ==
    /\ Tick
    /\ UNCHANGED <<policy, wk, ext>>
    /\ listeners' = [listeners EXCEPT ![key] = @ + 1]
    /\ op' = "on"
    /\ emitted' = <<>>
    /\ sent' = {}
    /\ lastFrame' = NoFrame
    /\ UNCHANGED <<fields, errorListener, env, joined, lazy,
                   lazyJoins, lazyConnects,
                   phase, cancelled, preRooms, joinsSince, seenTx,
                   deliveredTx>>

\* ---- socket events ------------------------------------------------------
\* createSocket: socket.onopen, lines 884-895, then the continuation of
\* connect() (lines 560-561) when this open fulfils Promise.all
onopenSocket(s, held) == IF TypeOf(s) = "main" THEN s ELSE held
onopenTransactionSocket(s, held) == IF TypeOf(s) = "main" THEN held ELSE s

SocketOpen(s) ==
    /\ Tick
    /\ UNCHANGED <<policy, wk, ext>>
    /\ readyState[s] = "connecting"
    /\ readyState' = [readyState EXCEPT ![s] = "open"]
    /\ socket' = onopenSocket(s, socket)
    /\ transactionSocket' = onopenTransactionSocket(s, transactionSocket)
    /\ reconnectAttempts' = 0
    /\ opened' = opened \cup {s}
    /\ sent' = resubscribeToRooms(socket', transactionSocket', readyState',
                                  subscribedRooms)
    /\ IF attempt[AttemptOf(s)] = "pending" /\ allResolved(AttemptOf(s), opened')
       THEN /\ attempt' = [attempt EXCEPT ![AttemptOf(s)] = "resolved"]
            /\ isConnecting' = FALSE
            /\ emitted' = <<EvConnected(AttemptOf(s))>>
       ELSE /\ emitted' = <<>>
            /\ UNCHANGED <<attempt, isConnecting>>
    /\ op' = "open"
    /\ lastFrame' = NoFrame
    /\ joined' = Joined(sent', socket, transactionSocket,
                        socket', transactionSocket')
    /\ lazyJoins' = IF lazy = NoRoom THEN 0 ELSE lazyJoins + JoinsFor(sent', lazy)
    /\ joinsSince' = Since(sent', phase)
    /\ UNCHANGED <<subscribedRooms, transactions, autoReconnect, emitter,
                   timers, lazy, lazyConnects, phase, cancelled,
                   preRooms, seenTx, deliveredTx>>

\* createSocket: socket.onerror, lines 897-899, before the socket opened:
\* it rejects the socket's promise; the first rejection rejects Promise.all
\* and runs the catch block of connect(). The socket ends CLOSED; no
\* onclose handler was set on it.
SocketError(s) ==
    /\ Tick
    /\ UNCHANGED <<policy, wk, ext>>
    /\ readyState[s] = "connecting"
    /\ readyState' = [readyState EXCEPT ![s] = "closed"]
    /\ IF attempt[AttemptOf(s)] = "pending"
       THEN /\ attempt' = [attempt EXCEPT ![AttemptOf(s)] = "rejected"]
            /\ isConnecting' = FALSE
            /\ emitted' = catchEvents(autoReconnect, errorListener,
                                      reconnectAttempts)
            /\ timers' = catchTimers(autoReconnect, errorListener, timers)
       ELSE /\ emitted' = <<>>
            /\ UNCHANGED <<attempt, isConnecting, timers>>
    /\ op' = "error"
    /\ sent' = {}
    /\ lastFrame' = NoFrame
    /\ UNCHANGED <<socket, transactionSocket, reconnectAttempts,
                   subscribedRooms, transactions, autoReconnect, emitter,
                   opened, joined, lazy, lazyJoins, lazyConnects, phase,
                   cancelled, preRooms, joinsSince, seenTx, deliveredTx>>

\* The closing handshake starts on an open socket: readyState becomes
\* CLOSING and no handler runs.
SocketClosing(s) ==
    /\ Tick
    /\ UNCHANGED <<policy, wk, ext>>
    /\ readyState[s] = "open"
    /\ readyState' = [readyState EXCEPT ![s] = "closing"]
    /\ op' = "closing"
    /\ emitted' = <<>>
    /\ sent' = {}
    /\ lastFrame' = NoFrame
    /\ lazy' = NoRoom
    /\ lazyJoins' = 0
    /\ lazyConnects' = 0
    /\ UNCHANGED <<fields, emitter, opened, attempt, timers,
                   joined, phase, cancelled, preRooms, joinsSince, seenTx,
                   deliveredTx>>

\* setupSocketListeners: socket.onclose, lines 938-950. The handler clears
\* the field of the socket's type, whichever socket the field holds.
oncloseSocket(s, held) == IF TypeOf(s) = "main" THEN NoSock ELSE held
oncloseTransactionSocket(s, held) ==
    IF TypeOf(s) = "transaction" THEN NoSock ELSE held

SocketClose(s) ==
    /\ Tick
    /\ UNCHANGED <<policy, wk, ext>>
    /\ readyState[s] \in {"open", "closing"}
    /\ readyState' = [readyState EXCEPT ![s] = "closed"]
    /\ socket' = oncloseSocket(s, socket)
    /\ transactionSocket' = oncloseTransactionSocket(s, transactionSocket)
    /\ emitted' = <<EvDisconnected(TypeOf(s))>>
                    \o reconnectEvents(autoReconnect, reconnectAttempts)
    /\ timers' = reconnectTimers(autoReconnect, timers)
    /\ op' = "close"
    /\ sent' = {}
    /\ lastFrame' = NoFrame
    /\ joined' = Joined({}, socket, transactionSocket,
                        socket', transactionSocket')
    /\ lazy' = NoRoom
    /\ lazyJoins' = 0
    /\ lazyConnects' = 0
    /\ UNCHANGED <<reconnectAttempts, subscribedRooms, transactions,
                   autoReconnect, isConnecting, emitter, opened, attempt, phase, cancelled, preRooms, joinsSince,
                   seenTx, deliveredTx>>

\* reconnect(): the setTimeout callback, lines 994-997
TimerFire ==
    /\ Tick
    /\ UNCHANGED <<policy, wk, ext>>
    /\ timers > 0
    /\ timers' = timers - 1
    /\ reconnectAttempts' = reconnectAttempts + 1
    /\ DoConnect
    /\ op' = "timer"
    /\ emitted' = <<>>
    /\ sent' = {}
    /\ lastFrame' = NoFrame
    /\ UNCHANGED <<socket, transactionSocket, subscribedRooms, transactions,
                   autoReconnect, emitter, opened, hist>>

\* setupSocketListeners: socket.onmessage, lines 915-936, for a frame
\* {type: 'message', room, data: {tx?, token}}. NoTx stands for a payload
\* with no tx field.
isDuplicate_Never(tx, txs) == FALSE
isDuplicate(tx, txs) == tx # NoTx /\ tx \in txs
\* Variant: an onmessage that never records the id it delivers.
remember_Nothing(tx, txs) == txs
remember(tx, txs) == IF tx # NoTx THEN txs \cup {tx} ELSE txs

messageEvents(room, token, ls) ==
    (IF includes(room, <<"price", ":">>)
     THEN <<EvRoom(PriceByToken(token), ls[PriceByToken(token)])>>
     ELSE <<>>) \o <<EvRoom(room, ls[room])>>

Called(evs) == \E i \in 1..Len(evs) : evs[i].called > 0

\* message.data?.tx and message.data.token: an array has neither field, and
\* reading .token of null throws a TypeError
payloadTx_AnyItem(d) ==
    IF \E i \in DOMAIN d.items : d.items[i].tx # NoTx
    THEN d.items[CHOOSE i \in DOMAIN d.items : d.items[i].tx # NoTx].tx
    ELSE NoTx
payloadTx(d) == IF d.kind = "object" THEN d.items[1].tx ELSE NoTx
payloadToken(d) == IF d.kind = "object" THEN d.items[1].token ELSE NoToken
tokenThrows(room, d) == includes(room, <<"price", ":">>) /\ d.kind = "null"

\* The keys events are emitted under: the rooms a caller subscribes to and
\* the derived keys of every token a payload can name.
RouteTokens == Tokens \cup {"B"}
SubKeys == Rooms \cup {PriceByToken(t) : t \in Tokens}
EmitKeys ==
    Keys \cup SubKeys \cup {PriceByToken(t) : t \in RouteTokens \cup {NoToken}}

\* _subscribe: wrappedCallback, lines 1028-1036, of registration h called
\* with payload d
Call(h, arg) == [id |-> h.id, cb |-> h.cb, arg |-> arg]
\* Variant: a wrapper that hands an array to the callback in one call.
wrappedCallback_Whole(h, d) ==
    <<Call(h, IF d.kind = "object" THEN d.items[1] ELSE NullItem)>>
wrappedCallback(h, d) ==
    IF d.kind = "array"
    THEN [i \in 1..Len(d.items) |-> Call(h, d.items[i])]
    ELSE <<Call(h, IF d.kind = "object" THEN d.items[1] ELSE NullItem)>>

\* emit(key, d): the listeners of key, in registration order
RECURSIVE emitCalls(_, _, _)
emitCalls(hs, key, d) ==
    IF hs = <<>> THEN <<>>
    ELSE (IF Head(hs).room = key THEN wrappedCallback(Head(hs), d) ELSE <<>>)
         \o emitCalls(Tail(hs), key, d)

\* listenerCount(key): listeners registered with on(key, ...) directly and
\* through a handle
allListeners(ls, hs) ==
    [k \in EmitKeys |->
        (IF k \in DOMAIN ls THEN ls[k] ELSE 0)
        + Cardinality({i \in DOMAIN hs : hs[i].room = k})]

\* Variant: a router that emits the derived key for every room.
derivedKeys_Always(room, token) == <<PriceByToken(token)>>
\* lines 926-929: the derived key of a price room
derivedKeys(room, token) ==
    IF includes(room, <<"price", ":">>) THEN <<PriceByToken(token)>> ELSE <<>>

messageCalls(room, d, hs) ==
    (IF derivedKeys(room, payloadToken(d)) # <<>>
     THEN emitCalls(hs, derivedKeys(room, payloadToken(d))[1], d)
     ELSE <<>>) \o emitCalls(hs, room, d)

\* With no 'error' listener emit('error') throws out of the catch block,
\* which has nothing left to run.
\* Variant: a handler that closes the socket on a frame it cannot parse.
onParseError_Close(rs, s) == [rs EXCEPT ![s] = "closing"]
\* lines 933-935: the catch block leaves the socket alone
onParseError(rs, s) == rs

Receive(s, f) ==
    /\ Tick
    /\ UNCHANGED <<policy, wk, facade, proc>>
    /\ s \in opened
    /\ readyState[s] = "open"
    /\ LET isData == f.json /\ f.type = "message"
           tx == IF isData THEN payloadTx(f.data) ELSE NoTx
           dropped == isData /\ isDuplicate(tx, transactions)
           throws == isData /\ ~dropped /\ tokenThrows(f.room, f.data)
       IN  /\ transactions' = IF isData /\ ~dropped
                              THEN remember(tx, transactions)
                              ELSE transactions
           /\ emitted' = IF ~f.json \/ throws THEN <<EvError>>
                         ELSE IF ~isData \/ dropped THEN <<>>
                         ELSE messageEvents(f.room, payloadToken(f.data),
                                            allListeners(listeners, handlers))
           /\ calls' = IF isData /\ ~dropped /\ ~throws
                       THEN messageCalls(f.room, f.data, handlers)
                       ELSE <<>>
           /\ readyState' = IF ~f.json \/ throws
                            THEN onParseError(readyState, s)
                            ELSE readyState
           /\ seenTx' = IF tx # NoTx THEN [seenTx EXCEPT ![tx] = @ + 1]
                        ELSE seenTx
           /\ deliveredTx' = IF tx # NoTx /\ Called(emitted')
                             THEN [deliveredTx EXCEPT ![tx] = @ + 1]
                             ELSE deliveredTx
           /\ lastFrame' = [tx |-> tx,
                            nth |-> IF tx # NoTx THEN seenTx'[tx] ELSE 0,
                            sock |-> s]
    /\ failed' = IF f.json THEN failed ELSE failed \cup {s}
    /\ op' = "message"
    /\ sent' = {}
    /\ UNCHANGED <<socket, transactionSocket, reconnectAttempts,
                   subscribedRooms, autoReconnect, isConnecting, emitter,
                   opened, attempt, timers, joined, lazy, lazyJoins,
                   lazyConnects, phase, cancelled, preRooms, joinsSince,
                   handlers, registered, removed>>

\* a frame {type: 'message', room, data: {tx?, token}}
Message(s, room, tx, token) ==
    /\ Receive(s, DataFrame(room, Object(tx, token)))
    /\ UNCHANGED <<inbound, carrier>>

\* any frame, the frame being recorded
OnMessage(s, f) ==
    /\ Receive(s, f)
    /\ inbound' = f
    /\ carrier' = IF transactions' # transactions
                  THEN [room |-> f.room, sock |-> s]
                  ELSE carrier

\* handle.on(callback), lines 1026-1038, on the handle _subscribe(room)
\* returned: a new wrappedCallback is registered for the room
Callbacks == {"f", "g"}
Registration(id, room, cb) == [id |-> id, room |-> room, cb |-> cb]

HandleOn(room, cb) ==
    /\ Tick
    /\ UNCHANGED <<policy, wk, facade, proc>>
    /\ room \in subscribedRooms
    /\ registered < MaxRegistrations
    /\ registered' = registered + 1
    /\ handlers' = Append(handlers, Registration(registered + 1, room, cb))
    /\ op' = "on"
    /\ emitted' = <<>>
    /\ sent' = {}
    /\ calls' = <<>>
    /\ lastFrame' = NoFrame
    /\ inbound' = NoInbound
    /\ UNCHANGED <<fields, emitter, env, hist, removed, failed, carrier>>

\* removeListener(room, wrappedCallback), line 1042: the registration is
\* removed if it is still there
removeListener_Callback(hs, id) ==
    SelectSeq(hs, LAMBDA h :
        \A j \in DOMAIN hs : hs[j].id = id => <<h.room, h.cb>> # <<hs[j].room, hs[j].cb>>)
removeListener(hs, id) == SelectSeq(hs, LAMBDA h : h.id # id)

\* the unsubscribe() that the id-th handle.on() returned, lines 1040-1044
HandleUnsubscribe(id) ==
    /\ Tick
    /\ UNCHANGED <<policy, wk, facade, proc>>
    /\ id \in 1..registered
    /\ handlers' = removeListener(handlers, id)
    /\ removed' = IF \E i \in DOMAIN handlers : handlers[i].id = id
                  THEN handlers[CHOOSE i \in DOMAIN handlers :
                                    handlers[i].id = id]
                  ELSE NoRegistration
    /\ op' = "off"
    /\ emitted' = <<>>
    /\ sent' = {}
    /\ calls' = <<>>
    /\ lastFrame' = NoFrame
    /\ inbound' = NoInbound
    /\ UNCHANGED <<fields, emitter, env, hist, registered, failed, carrier>>

\* ---- worker mode --------------------------------------------------------
\* With useWorker set the two sockets live in a worker running the code of
\* getWorkerCode() (lines 702-872); the threads exchange messages with
\* postMessage, which is asynchronous and keeps the order of each sender.
\* A step is still one task: a call of the public API, a socket event or a
\* timer in the worker, or the delivery of one message to the other thread.
ToWorker(t, room) == [type |-> t, room |-> room]
ToMain(t, socketType, n) == [type |-> t, socketType |-> socketType, data |-> n]

\* worker: socket.onmessage, lines 780-789: a data frame is forwarded as
\* {type: 'message', data: {room, message}}, a parse failure as
\* {type: 'error', data: error.message}
SyntaxErrorMessage == 1
ToMainMessage(room, d) ==
    [type |-> "message", socketType |-> "", data |-> 0, room |-> room,
     message |-> d]
ToMainSyntaxError == ToMain("error", "", SyntaxErrorMessage)

workerSide == <<workerMainSocket, workerTransactionSocket,
                workerSubscribedRooms, workerReconnectAttempts, workerTimers>>

\* isConnected(), lines 1126-1137
isConnectedWith(useW, w, rs, s, ts) ==
    IF useW THEN w ELSE isOpen(rs, s) /\ isOpen(rs, ts)

\* connectWithWorker(), lines 576-610: the early returns, else the worker is
\* created, 'connect' is posted and the 'message' handler is registered
connectWithWorkerReturnsEarly(w, connecting) == w \/ connecting

DoConnectWithWorker ==
    IF connectWithWorkerReturnsEarly(worker, isConnecting)
    THEN UNCHANGED <<isConnecting, worker, waiting, toWorker>>
    ELSE /\ isConnecting' = TRUE
         /\ worker' = TRUE
         /\ waiting' = TRUE
         /\ toWorker' = Append(toWorker, ToWorker("connect", NoRoom))

\* connect() with useWorker, lines 540-542
ConnectWithWorker ==
    /\ Tick
    /\ UNCHANGED <<policy, ext>>
    /\ DoConnectWithWorker
    /\ op' = "connect"
    /\ emitted' = <<>>
    /\ sent' = {}
    /\ lastFrame' = NoFrame
    /\ UNCHANGED <<socket, transactionSocket, reconnectAttempts,
                   subscribedRooms, transactions, autoReconnect, emitter,
                   env, hist, useWorker, toMain, workerSide>>

\* _subscribe(room) with useWorker, lines 1006-1022: with a worker the room
\* is posted to it; without one the else branch finds this.socket null and
\* calls connect()
SubscribeWithWorker(room) ==
    /\ Tick
    /\ UNCHANGED <<policy, ext>>
    /\ subscribedRooms' = subscribedRooms \cup {room}
    /\ IF worker
       THEN /\ toWorker' = Append(toWorker, ToWorker("subscribe", room))
            /\ UNCHANGED <<isConnecting, worker, waiting>>
       ELSE DoConnectWithWorker
    /\ op' = "subscribe"
    /\ emitted' = <<>>
    /\ sent' = {}
    /\ lastFrame' = NoFrame
    /\ lazy' = IF ~worker THEN room
               ELSE IF room = lazy THEN NoRoom ELSE lazy
    /\ lazyJoins' = IF lazy' = lazy THEN lazyJoins ELSE 0
    /\ lazyConnects' = IF ~worker THEN (IF worker' THEN 1 ELSE 0)
                       ELSE IF lazy' = NoRoom THEN 0 ELSE lazyConnects
    /\ UNCHANGED <<socket, transactionSocket, reconnectAttempts,
                   transactions, autoReconnect, emitter, env, joined, phase,
                   cancelled, preRooms, joinsSince, seenTx, deliveredTx,
                   useWorker, toMain, workerSide>>

\* unsubscribe(room) with useWorker, lines 1084-1100
UnsubscribeWithWorker(room) ==
    /\ Tick
    /\ UNCHANGED <<policy, ext>>
    /\ subscribedRooms' = subscribedRooms \ {room}
    /\ toWorker' = IF worker
                   THEN Append(toWorker, ToWorker("unsubscribe", room))
                   ELSE toWorker
    /\ op' = "unsubscribe"
    /\ emitted' = <<>>
    /\ sent' = {}
    /\ lastFrame' = NoFrame
    /\ lazy' = IF room = lazy THEN NoRoom ELSE lazy
    /\ lazyJoins' = IF room = lazy THEN 0 ELSE lazyJoins
    /\ lazyConnects' = IF room = lazy THEN 0 ELSE lazyConnects
    /\ UNCHANGED <<socket, transactionSocket, reconnectAttempts,
                   transactions, autoReconnect, isConnecting, emitter, env,
                   joined, phase, cancelled, preRooms, joinsSince, seenTx,
                   deliveredTx, useWorker, worker, waiting, toMain,
                   workerSide>>

\* worker: connect(), lines 734-739, its synchronous part: the two
\* createSocket() calls, with no guard
workerConnect ==
    /\ nAttempts < MaxAttempts
    /\ attempt' = [attempt EXCEPT ![nAttempts + 1] = "pending"]
    /\ readyState' = [readyState EXCEPT
                         ![MainOf(nAttempts + 1)] = "connecting",
                         ![TxOf(nAttempts + 1)] = "connecting"]

\* worker: reconnect(), lines 822-837
workerReconnectPosts(auto, n) ==
    IF auto THEN <<ToMain("reconnecting", "", n)>> ELSE <<>>

\* worker: the 'message' listener, lines 711-732, with subscribe() and
\* unsubscribe(), lines 839-853
WorkerReceive ==
    /\ Tick
    /\ UNCHANGED <<policy, ext>>
    /\ toWorker # <<>>
    /\ toWorker' = Tail(toWorker)
    /\ LET m == Head(toWorker)
           s == roomSocket(m.room, workerMainSocket, workerTransactionSocket)
       IN  CASE m.type = "connect" ->
                  /\ workerConnect
                  /\ sent' = {}
                  /\ UNCHANGED workerSubscribedRooms
             [] m.type = "subscribe" ->
                  /\ workerSubscribedRooms' = workerSubscribedRooms \cup {m.room}
                  /\ sent' = IF isOpen(readyState, s)
                             THEN {Frame("join", m.room, s)} ELSE {}
                  /\ UNCHANGED <<attempt, readyState>>
             [] m.type = "unsubscribe" ->
                  /\ workerSubscribedRooms' = workerSubscribedRooms \ {m.room}
                  /\ sent' = IF isOpen(readyState, s)
                             THEN {Frame("leave", m.room, s)} ELSE {}
                  /\ UNCHANGED <<attempt, readyState>>
    /\ op' = "worker-message"
    /\ emitted' = <<>>
    /\ lastFrame' = NoFrame
    /\ lazyJoins' = IF lazy = NoRoom THEN 0 ELSE lazyJoins + JoinsFor(sent', lazy)
    /\ UNCHANGED <<fields, emitter, opened, timers, joined, lazy,
                   lazyConnects, phase, cancelled, preRooms, joinsSince,
                   seenTx, deliveredTx, useWorker, worker, waiting, toMain,
                   workerMainSocket, workerTransactionSocket,
                   workerReconnectAttempts, workerTimers>>

\* worker: createSocket, socket.onopen, lines 754-764, then the
\* continuation of the worker's connect() (line 740) when this open fulfils
\* its Promise.all. The data of 'connected' records the attempt.
WorkerSocketOpen(s) ==
    /\ Tick
    /\ UNCHANGED <<policy, ext>>
    /\ readyState[s] = "connecting"
    /\ readyState' = [readyState EXCEPT ![s] = "open"]
    /\ workerMainSocket' = onopenSocket(s, workerMainSocket)
    /\ workerTransactionSocket' =
          onopenTransactionSocket(s, workerTransactionSocket)
    /\ workerReconnectAttempts' = 0
    /\ opened' = opened \cup {s}
    /\ sent' = resubscribeToRooms(workerMainSocket', workerTransactionSocket',
                                  readyState', workerSubscribedRooms)
    /\ IF attempt[AttemptOf(s)] = "pending" /\ allResolved(AttemptOf(s), opened')
       THEN /\ attempt' = [attempt EXCEPT ![AttemptOf(s)] = "resolved"]
            /\ toMain' = Append(toMain, ToMain("connected", "", AttemptOf(s)))
       ELSE UNCHANGED <<attempt, toMain>>
    /\ op' = "worker-open"
    /\ emitted' = <<>>
    /\ lastFrame' = NoFrame
    /\ lazyJoins' = IF lazy = NoRoom THEN 0 ELSE lazyJoins + JoinsFor(sent', lazy)
    /\ UNCHANGED <<fields, emitter, timers, joined, lazy, lazyConnects,
                   phase, cancelled, preRooms, joinsSince, seenTx,
                   deliveredTx, useWorker, worker, waiting, toWorker,
                   workerSubscribedRooms, workerTimers>>

\* worker: createSocket, socket.onerror, lines 766-768, and the catch block
\* of the worker's connect(), lines 741-746
WorkerSocketError(s) ==
    /\ Tick
    /\ UNCHANGED <<policy, ext>>
    /\ readyState[s] = "connecting"
    /\ readyState' = [readyState EXCEPT ![s] = "closed"]
    /\ IF attempt[AttemptOf(s)] = "pending"
       THEN /\ attempt' = [attempt EXCEPT ![AttemptOf(s)] = "rejected"]
            /\ toMain' = toMain \o <<ToMain("error", "", 0)>>
                           \o workerReconnectPosts(autoReconnect,
                                                   workerReconnectAttempts)
            /\ workerTimers' = reconnectTimers(autoReconnect, workerTimers)
       ELSE UNCHANGED <<attempt, toMain, workerTimers>>
    /\ op' = "worker-error"
    /\ emitted' = <<>>
    /\ sent' = {}
    /\ lastFrame' = NoFrame
    /\ UNCHANGED <<fields, emitter, opened, timers, hist, useWorker, worker,
                   waiting, toWorker, workerMainSocket,
                   workerTransactionSocket, workerSubscribedRooms,
                   workerReconnectAttempts>>

\* worker: setupSocketListeners, socket.onclose, lines 793-805
WorkerSocketClose(s) ==
    /\ Tick
    /\ UNCHANGED <<policy, ext>>
    /\ s \in opened
    /\ readyState[s] \in {"open", "closing"}
    /\ readyState' = [readyState EXCEPT ![s] = "closed"]
    /\ workerMainSocket' = oncloseSocket(s, workerMainSocket)
    /\ workerTransactionSocket' =
          oncloseTransactionSocket(s, workerTransactionSocket)
    /\ toMain' = toMain \o <<ToMain("disconnected", TypeOf(s), 0)>>
                   \o workerReconnectPosts(autoReconnect,
                                           workerReconnectAttempts)
    /\ workerTimers' = reconnectTimers(autoReconnect, workerTimers)
    /\ op' = "worker-close"
    /\ emitted' = <<>>
    /\ sent' = {}
    /\ lastFrame' = NoFrame
    /\ lazy' = NoRoom
    /\ lazyJoins' = 0
    /\ lazyConnects' = 0
    /\ UNCHANGED <<fields, emitter, opened, attempt, timers, joined, phase,
                   cancelled, preRooms, joinsSince, seenTx, deliveredTx,
                   useWorker, worker, waiting, toWorker,
                   workerSubscribedRooms, workerReconnectAttempts>>

\* worker: setupSocketListeners, socket.onmessage, lines 776-791
WorkerSocketMessage(s, f) ==
    /\ Tick
    /\ UNCHANGED <<policy, facade, proc>>
    /\ s \in opened
    /\ readyState[s] = "open"
    /\ toMain' = IF ~f.json THEN Append(toMain, ToMainSyntaxError)
                 ELSE IF f.type = "message"
                      THEN Append(toMain, ToMainMessage(f.room, f.data))
                 ELSE toMain
    /\ failed' = IF f.json THEN failed ELSE failed \cup {s}
    /\ op' = "worker-frame"
    /\ emitted' = <<>>
    /\ sent' = {}
    /\ calls' = <<>>
    /\ lastFrame' = NoFrame
    /\ inbound' = NoInbound
    /\ UNCHANGED <<fields, emitter, env, hist, useWorker, worker, waiting,
                   toWorker, workerSide, handlers, registered, removed,
                   carrier>>

\* worker: reconnect(), the setTimeout callback, lines 833-836
WorkerTimerFire ==
    /\ Tick
    /\ UNCHANGED <<policy, ext>>
    /\ workerTimers > 0
    /\ workerTimers' = workerTimers - 1
    /\ workerReconnectAttempts' = workerReconnectAttempts + 1
    /\ workerConnect
    /\ op' = "worker-timer"
    /\ emitted' = <<>>
    /\ sent' = {}
    /\ lastFrame' = NoFrame
    /\ UNCHANGED <<fields, emitter, opened, timers, hist, useWorker, worker,
                   waiting, toWorker, toMain, workerMainSocket,
                   workerTransactionSocket, workerSubscribedRooms>>

\* setupWorkerListeners: worker.onmessage, lines 651-671, for the messages
\* other than 'message'
workerOnmessageEvents(m) ==
    CASE m.type = "disconnected" ->
            <<EvDisconnected(IF m.socketType = "" THEN "all" ELSE m.socketType)>>
      [] m.type = "error" -> <<EvError>>
      [] m.type = "reconnecting" -> <<EvReconnecting(m.data)>>
      [] OTHER -> <<>>

\* handleWorkerMessage({room, message}), lines 681-697. Reading .token of a
\* null message throws out of worker.onmessage, which catches nothing.
HandleWorkerMessage(m) ==
    LET tx == payloadTx(m.message)
        dropped == isDuplicate(tx, transactions)
        throws == ~dropped /\ tokenThrows(m.room, m.message)
    IN  /\ transactions' = IF dropped THEN transactions
                           ELSE remember(tx, transactions)
        /\ emitted' = IF dropped \/ throws THEN <<>>
                      ELSE messageEvents(m.room, payloadToken(m.message),
                                         allListeners(listeners, handlers))
        /\ calls' = IF dropped \/ throws THEN <<>>
                    ELSE messageCalls(m.room, m.message, handlers)
        /\ seenTx' = IF tx # NoTx THEN [seenTx EXCEPT ![tx] = @ + 1]
                     ELSE seenTx
        /\ deliveredTx' = IF tx # NoTx /\ Called(emitted')
                          THEN [deliveredTx EXCEPT ![tx] = @ + 1]
                          ELSE deliveredTx
        /\ lastFrame' = [tx |-> tx,
                         nth |-> IF tx # NoTx THEN seenTx'[tx] ELSE 0,
                         sock |-> NoSock]
        /\ inbound' = DataFrame(m.room, m.message)

\* One message of the worker reaches the main thread: worker.onmessage
\* runs, then the handler connectWithWorker() registered (lines 618-630)
\* while it waits, then the continuation of connectWithWorker(): lines
\* 632-633 after 'connected', the catch block 634-641 after 'error'.
MainReceive ==
    /\ Tick
    /\ UNCHANGED <<policy, facade, proc>>
    /\ toMain # <<>>
    /\ toMain' = Tail(toMain)
    /\ LET m == Head(toMain)
       IN  /\ worker' = IF m.type = "disconnected" /\ m.socketType = "all"
                        THEN FALSE ELSE worker
           /\ IF m.type = "message"
              THEN /\ HandleWorkerMessage(m)
                   /\ UNCHANGED <<waiting, isConnecting, timers>>
              ELSE /\ IF waiting /\ m.type = "connected"
                      THEN /\ waiting' = FALSE
                           /\ isConnecting' = FALSE
                           /\ emitted' = workerOnmessageEvents(m)
                                           \o <<EvConnected(m.data)>>
                           /\ UNCHANGED timers
                      ELSE IF waiting /\ m.type = "error"
                      THEN /\ waiting' = FALSE
                           /\ isConnecting' = FALSE
                           /\ emitted' = workerOnmessageEvents(m)
                                           \o catchEvents(autoReconnect,
                                                          errorListener,
                                                          reconnectAttempts)
                           /\ timers' = catchTimers(autoReconnect,
                                                    errorListener, timers)
                      ELSE /\ emitted' = workerOnmessageEvents(m)
                           /\ UNCHANGED <<waiting, isConnecting, timers>>
                   /\ calls' = <<>>
                   /\ lastFrame' = NoFrame
                   /\ inbound' = IF m = ToMainSyntaxError THEN NotJson
                                 ELSE NoInbound
                   /\ UNCHANGED <<transactions, seenTx, deliveredTx>>
    /\ op' = "main-message"
    /\ sent' = {}
    /\ UNCHANGED <<socket, transactionSocket, reconnectAttempts,
                   subscribedRooms, autoReconnect, emitter, readyState,
                   opened, attempt, joined, lazy, lazyJoins, lazyConnects,
                   phase, cancelled, preRooms, joinsSince, useWorker,
                   toWorker, workerSide, handlers, registered, removed,
                   failed, carrier>>

\* connectWithWorker(): the 10 s timeout, lines 614-616, rejects the wait
\* and runs the catch block, lines 634-641
WorkerTimeout ==
    /\ Tick
    /\ UNCHANGED <<policy, ext>>
    /\ waiting
    /\ waiting' = FALSE
    /\ isConnecting' = FALSE
    /\ emitted' = catchEvents(autoReconnect, errorListener, reconnectAttempts)
    /\ timers' = catchTimers(autoReconnect, errorListener, timers)
    /\ op' = "timeout"
    /\ sent' = {}
    /\ lastFrame' = NoFrame
    /\ UNCHANGED <<socket, transactionSocket, reconnectAttempts,
                   subscribedRooms, transactions, autoReconnect, emitter,
                   readyState, opened, attempt, hist, useWorker, worker,
                   toWorker, toMain, workerSide>>

\* reconnect() on the main thread with useWorker: the setTimeout callback,
\* lines 994-997, whose connect() is connectWithWorker()
TimerFireWithWorker ==
    /\ Tick
    /\ UNCHANGED <<policy, ext>>
    /\ timers > 0
    /\ timers' = timers - 1
    /\ reconnectAttempts' = reconnectAttempts + 1
    /\ DoConnectWithWorker
    /\ op' = "timer"
    /\ emitted' = <<>>
    /\ sent' = {}
    /\ lastFrame' = NoFrame
    /\ UNCHANGED <<socket, transactionSocket, subscribedRooms, transactions,
                   autoReconnect, emitter, readyState, opened, attempt, hist,
                   useWorker, toMain, workerSide>>

\* ---- specifications -----------------------------------------------------
\* The connection lifecycle: the API calls that change it, every socket
\* event, the reconnect timer.
Next ==
    \/ Connect
    \/ Disconnect
    \/ \E r \in Rooms : Subscribe(r)
    \/ \E s \in SockIds : SocketOpen(s)
    \/ \E s \in SockIds : SocketError(s)
    \/ \E s \in SockIds : SocketClosing(s)
    \/ \E s \in SockIds : SocketClose(s)
    \/ TimerFire

Spec == Init /\ [][Next]_vars

\* Message delivery: listeners, inbound frames on every open socket, and
\* the lifecycle steps that open, close and replace sockets and end a
\* session.
InitMsg ==
    InitWith(MaxMsgSteps) /\ errorListener = TRUE /\ useWorker = FALSE

NextMsg ==
    \/ Connect
    \/ Disconnect
    \/ \E k \in Keys : On(k)
    \/ \E s \in SockIds : SocketOpen(s)
    \/ \E s \in SockIds : SocketClose(s)
    \/ TimerFire
    \/ \E s \in SockIds, r \in Rooms, tx \in TxIds \cup {NoTx}, t \in Tokens :
          Message(s, r, tx, t)

SpecMsg == InitMsg /\ [][NextMsg]_vars

\* Subscriptions: subscribe and unsubscribe in every connection state,
\* inbound frames, disconnect() from every state.
InitSub ==
    InitWith(MaxSubSteps) /\ errorListener = TRUE /\ useWorker = FALSE

NextSub ==
    \/ Connect
    \/ Disconnect
    \/ \E r \in Rooms : Subscribe(r)
    \/ \E r \in Rooms : Unsubscribe(r)
    \/ \E s \in SockIds : SocketOpen(s)
    \/ \E s \in SockIds : SocketError(s)
    \/ \E s \in SockIds : SocketClose(s)
    \/ TimerFire
    \/ \E s \in SockIds, r \in Rooms, tx \in TxIds, t \in Tokens :
          Message(s, r, tx, t)

SpecSub == InitSub /\ [][NextSub]_vars

\* Routing and fan-out: rooms subscribed through the facade's handles,
\* listeners registered on and removed from them, and every kind of inbound
\* frame on the open sockets.
\* the array payload of n elements: its items alternate, so that their
\* order shows
ArrayOf(n) ==
    Array([i \in 1..n |-> IF i % 2 = 1 THEN Item(NoTx, "A")
                                      ELSE Item("tx1", "B")])
Payloads ==
    {Object(NoTx, "A"), Object("tx1", "A"), Object(NoTx, "B"),
     Object(NoTx, NoToken), Null}
    \cup {ArrayOf(n) : n \in 0..MaxArray}
RouteFrames ==
    {DataFrame(r, d) : r \in Rooms, d \in Payloads}
    \cup {NotJson, Text(TRUE, "joined", RoomPrice, Null)}

\* The server sends the frames of a room on the channel the room is joined
\* on; any socket can carry a frame that is no data frame.
FrameSockets(f) ==
    {s \in SockIds :
        f.json /\ f.type = "message"
            => roomSocket(f.room, s, NoSock) = NoSock <=> TypeOf(s) = "transaction"}

InitRoute ==
    /\ InitWith(MaxRouteSteps)
    /\ autoReconnect = TRUE
    /\ useWorker = FALSE

NextRoute ==
    \/ \E r \in SubKeys : Subscribe(r)
    \/ \E s \in SockIds : SocketOpen(s)
    \/ \E r \in SubKeys, cb \in Callbacks : HandleOn(r, cb)
    \/ \E id \in 1..MaxRegistrations : HandleUnsubscribe(id)
    \/ \E f \in RouteFrames : \E s \in FrameSockets(f) : OnMessage(s, f)

SpecRoute == InitRoute /\ [][NextRoute]_vars

\* Worker mode, over one worker's lifetime (no disconnect()): the calls of
\* the public API, the two message queues, the worker's sockets and timers,
\* and the frames its sockets receive.
WorkerFrames == {NotJson, DataFrame(RoomPrice, Object(NoTx, "A"))}

InitWorker ==
    InitWith(MaxWorkerSteps) /\ errorListener = TRUE /\ useWorker = TRUE

NextWorker ==
    \/ ConnectWithWorker
    \/ \E r \in Rooms : SubscribeWithWorker(r)
    \/ \E r \in Rooms : UnsubscribeWithWorker(r)
    \/ WorkerReceive
    \/ \E s \in SockIds : WorkerSocketOpen(s)
    \/ \E s \in SockIds : WorkerSocketError(s)
    \/ \E s \in SockIds : WorkerSocketClose(s)
    \/ WorkerTimerFire
    \/ \E s \in SockIds, f \in WorkerFrames : WorkerSocketMessage(s, f)
    \/ MainReceive
    \/ WorkerTimeout
    \/ TimerFireWithWorker

SpecWorker == InitWorker /\ [][NextWorker]_vars

\* The backoff policy on its own: a client constructed with any of the
\* configurations below, whose attempt counter has reached any n, runs the
\* delay computation of reconnect().
ConfigDelays == {0, 1, 3, 2500, -2}
ConfigDelayMaxes == {0, 10, 4500, -5}
ConfigFactors == {0, 25, 100, -50}

InitDelay ==
    /\ left = 0
    /\ socket = NoSock
    /\ transactionSocket = NoSock
    /\ reconnectAttempts \in 0..MaxBackoffs
    /\ subscribedRooms = {}
    /\ transactions = {}
    /\ autoReconnect = TRUE
    /\ isConnecting = FALSE
    /\ listeners = [k \in Keys |-> 0]
    /\ errorListener = TRUE
    /\ readyState = [s \in SockIds |-> "none"]
    /\ opened = {}
    /\ attempt = [a \in Attempts |-> "none"]
    /\ timers = 0
    /\ op = "new"
    /\ emitted = <<>>
    /\ sent = {}
    /\ lastFrame = NoFrame
    /\ joined = [r \in Rooms |-> 0]
    /\ lazy = NoRoom
    /\ lazyJoins = 0
    /\ lazyConnects = 0
    /\ phase = "init"
    /\ cancelled = FALSE
    /\ preRooms = {}
    /\ joinsSince = [r \in Rooms |-> 0]
    /\ seenTx = [t \in TxIds |-> 0]
    /\ deliveredTx = [t \in TxIds |-> 0]
    /\ \E c \in ConfigDelays : reconnectDelay = orDefault(c, DefaultReconnectDelay)
    /\ \E c \in ConfigDelayMaxes :
          reconnectDelayMax = orDefault(c, DefaultReconnectDelayMax)
    /\ \E c \in ConfigFactors :
          randomizationFactor = orDefault(c, DefaultRandomizationFactor)
    /\ waited = NoWait
    /\ useWorker = FALSE
    /\ worker = FALSE
    /\ waiting = FALSE
    /\ toWorker = <<>>
    /\ toMain = <<>>
    /\ workerMainSocket = NoSock
    /\ workerTransactionSocket = NoSock
    /\ workerSubscribedRooms = {}
    /\ workerReconnectAttempts = 0
    /\ workerTimers = 0
    /\ handlers = <<>>
    /\ registered = 0
    /\ calls = <<>>
    /\ inbound = NoInbound
    /\ removed = NoRegistration
    /\ carrier = NoCarrier
    /\ failed = {}
    /\ call = NoCall
    /\ threw = FALSE
    /\ ProcIdle

\* reconnect(), lines 981-998, up to the setTimeout call
ReconnectDelay(u) ==
    /\ autoReconnect
    /\ waited = NoWait
    /\ waited' = [n |-> reconnectAttempts,
                  delay |-> delay(reconnectDelay, reconnectDelayMax,
                                  reconnectAttempts),
                  wait |-> reconnectWait(delay(reconnectDelay,
                                               reconnectDelayMax,
                                               reconnectAttempts),
                                         randomizationFactor, u),
                  u |-> u]
    /\ emitted' = reconnectEvents(autoReconnect, reconnectAttempts)
    /\ timers' = reconnectTimers(autoReconnect, timers)
    /\ op' = "reconnect"
    /\ UNCHANGED <<fields, emitter, readyState, opened, attempt, sent,
                   lastFrame, hist, left, reconnectDelay, reconnectDelayMax,
                   randomizationFactor, wk, ext>>

NextDelay == \E u \in 0..(RandomSteps - 1) : ReconnectDelay(u)

SpecDelay == InitDelay /\ [][NextDelay]_vars

\* ---- claims -------------------------------------------------------------
OpenSockets(t) == {s \in SockIds : readyState[s] = "open" /\ TypeOf(s) = t}

\* C1: after disconnect() returns and until the caller next calls connect()
\* or subscribes, no step starts a connect attempt, schedules a reconnect
\* timer, or emits `reconnecting` or `connected`.
C1_StaysDisconnected ==
    [][(phase = "disconnected" /\ phase' = "disconnected") =>
          /\ nAttempts' = nAttempts
          /\ timers' <= timers
          /\ \A i \in 1..Len(emitted') :
                emitted'[i].ev \notin {"reconnecting", "connected"}]_vars

\* C2: in every reachable state each channel has at most one open socket.
C2_OneOpenSocketPerChannel ==
    \A t \in {"main", "transaction"} : Cardinality(OpenSockets(t)) <= 1

\* C3: after a disconnect() called while a connect attempt was in flight
\* (and until the caller's next connect() or subscribe), the connecting flag
\* is clear, no channel socket is held or open, and `connected` is not
\* emitted.
C3_CleanCancel ==
    cancelled =>
        /\ ~isConnecting
        /\ socket = NoSock /\ transactionSocket = NoSock
        /\ \A s \in SockIds : readyState[s] # "open"
        /\ ~Emitted("connected")

\* C4 (as claimed): after disconnect() then connect(), once both channels
\* are open again, exactly one join frame has been sent for every room
\* tracked before the disconnect and none for any other room.
C4_ResubscribesPreDisconnectRooms ==
    (phase = "reconnected" /\ isConnected) =>
        \A r \in Rooms : joinsSince[r] = IF r \in preRooms THEN 1 ELSE 0

\* C4 (amended): disconnect() empties the tracked room set, so from
\* disconnect() until the caller subscribes again the tracked set is empty
\* and no join frame is sent for any room, whether or not connect() was
\* called and the channels reopened.
C4_DisconnectForgetsRooms ==
    phase # "init" =>
        /\ subscribedRooms = {}
        /\ \A r \in Rooms : joinsSince[r] = 0

C4_Witness == phase = "reconnected" /\ isConnected /\ preRooms # {}

\* C5: between two disconnect() calls, and across any number of reconnects,
\* at most one inbound message carrying a given transaction id reaches the
\* listeners, and every later message carrying that id produces no event at
\* all: no listener call and no `error`.
C5_DedupWithinSession ==
    /\ \A T \in TxIds : deliveredTx[T] <= 1
    /\ (op = "message" /\ lastFrame.nth > 1) => emitted = <<>>

C5_Witness ==
    /\ op = "message"
    /\ lastFrame.nth >= 2
    /\ deliveredTx[lastFrame.tx] = 1
    /\ AttemptOf(lastFrame.sock) >= 2

\* C6: every frame sent by a resubscription pass (the one run by a socket's
\* onopen) is a join for a tracked room, sent while both channel sockets
\* are held and open, on the open socket of the room's channel.
C6_ResubscribeOnlyWhenBothOpen ==
    (op = "open" /\ sent # {}) =>
        /\ isConnected
        /\ \A f \in sent :
              /\ f.type = "join"
              /\ f.room \in subscribedRooms
              /\ f.sock = roomSocket(f.room, socket, transactionSocket)

C6_Witness == op = "open" /\ sent # {}

\* C7: when `connected` is emitted with both channels open, exactly one
\* join frame has been sent for every tracked room on the socket its
\* channel holds, since that socket opened.
C7_ResubscribedOnceAfterConnect ==
    (Emitted("connected") /\ isConnected) =>
        \A r \in subscribedRooms : joined[r] = 1

\* C8: a room subscribed while the client was disconnected is tracked, the
\* subscribes since then (that one, and those made while the attempt was in
\* flight) started exactly one connect attempt, and whenever both channels
\* are open afterwards (before any socket closes) exactly one join frame
\* has been sent for it.
C8_LazySubscribeJoinsOnce ==
    lazy # NoRoom =>
        /\ lazy \in subscribedRooms
        /\ lazyConnects = 1
        /\ isConnected => lazyJoins = 1

\* C9: connect() called while both channel sockets are held, or while a
\* connect attempt is in flight, changes no field, creates no socket, sets
\* no timer, emits no event and sends no frame.
C9_ConnectNoOp ==
    [][(op' = "connect" /\ left' # left
        /\ ((socket # NoSock /\ transactionSocket # NoSock) \/ isConnecting)) =>
          /\ UNCHANGED <<fields, emitter, env>>
          /\ emitted' = <<>>
          /\ sent' = {}]_vars

C9_Witness ==
    op = "connect" /\ socket # NoSock /\ transactionSocket # NoSock

\* C10: `connected` is emitted for a connect attempt only when the main and
\* the transaction socket of that attempt have both opened.
C10_ConnectedOnlyWhenBothOpened ==
    \A i \in 1..Len(emitted) :
        emitted[i].ev = "connected" =>
            /\ MainOf(emitted[i].n) \in opened
            /\ TxOf(emitted[i].n) \in opened

C10_Witness == Emitted("connected")

\* C11: when a connect attempt fails because a channel did not open, the
\* step emits exactly one `error`, the promise connect() returned is
\* fulfilled, a retry is scheduled (`reconnecting` emitted, one more timer)
\* exactly when auto-reconnect is enabled, and with auto-reconnect disabled
\* no timer is pending and no channel socket is left open.
C11_FailedAttemptHandled ==
    (op = "error" /\ Emitted("error")) =>
        /\ Cardinality({i \in 1..Len(emitted) : emitted[i].ev = "error"}) = 1
        /\ \A a \in Attempts :
              attempt[a] = "rejected" =>
                  connectPromise(a, errorListener) = "resolved"
        /\ Emitted("reconnecting") <=> autoReconnect
        /\ autoReconnect => timers > 0
        /\ ~autoReconnect =>
              /\ timers = 0
              /\ \A s \in SockIds : readyState[s] # "open"

\* C12: the close of an opened channel socket emits `disconnected` with
\* that channel's scope and clears that channel's field; with
\* auto-reconnect enabled it then emits `reconnecting` with the current
\* attempt count and arms one retry timer, and with auto-reconnect disabled
\* it emits nothing else, arms no timer, and no step other than connect()
\* or subscribe creates a socket.
C12_ChannelCloseReconnects ==
    [][/\ \A s \in SockIds :
            (op' = "close" /\ readyState[s] # "closed"
                           /\ readyState'[s] = "closed") =>
                /\ emitted'[1] = EvDisconnected(TypeOf(s))
                /\ TypeOf(s) = "main" => socket' = NoSock
                /\ TypeOf(s) = "transaction" => transactionSocket' = NoSock
                /\ IF autoReconnect
                   THEN /\ emitted' = <<EvDisconnected(TypeOf(s)),
                                        EvReconnecting(reconnectAttempts)>>
                        /\ timers' = timers + 1
                   ELSE /\ emitted' = <<EvDisconnected(TypeOf(s))>>
                        /\ timers' = 0
                /\ readyState' = [readyState EXCEPT ![s] = "closed"]
       /\ (~autoReconnect /\ op' \notin {"connect", "subscribe"}) =>
                /\ nAttempts' = nAttempts
                /\ timers' = 0]_vars

C12_Witness ==
    /\ op = "close"
    /\ emitted = <<EvDisconnected("main"), EvReconnecting(0)>>
    /\ timers = 1
    /\ isOpen(readyState, transactionSocket)

\* C13: a channel open sets the reconnect attempt counter to 0, and the
\* counter advances by exactly one per failed-connect or channel-close
\* cycle: it only ever moves by +1, and when the retry of a cycle
\* increments it, no second retry armed during the same cycle (say by the
\* close of the other channel) is left pending to increment it again.
C13_CounterCountsCycles ==
    [][/\ op' = "open" => reconnectAttempts' = 0
       /\ reconnectAttempts' # reconnectAttempts /\ op' # "open" =>
             /\ reconnectAttempts' = reconnectAttempts + 1
             /\ timers' = 0]_vars

\* the pre-jitter delay the policy prescribes for attempt count n
PolicyDelay(n) ==
    IF reconnectDelay * (2 ^ n) <= reconnectDelayMax
    THEN reconnectDelay * (2 ^ n)
    ELSE reconnectDelayMax

\* what C14 states about the delay reconnect() computed
BackoffWithinBounds ==
    /\ waited # NoWait =>
          /\ waited.delay = PolicyDelay(waited.n)
          /\ waited.delay <= reconnectDelayMax
          /\ waited.wait >= waited.delay * 100 * RandomSteps
          /\ waited.wait <=
                waited.delay * (100 + randomizationFactor) * RandomSteps
    /\ \A n \in 0..(MaxBackoffs - 1) :
          delay(reconnectDelay, reconnectDelayMax, n)
              <= delay(reconnectDelay, reconnectDelayMax, n + 1)

\* C14 (as claimed): for every attempt count n the pre-jitter delay is
\* min(reconnectDelay * 2^n, reconnectDelayMax), it never exceeds
\* reconnectDelayMax and never decreases with n, and the wait lies in
\* [delay, delay * (1 + randomizationFactor)].
C14_BackoffAnyConfig == BackoffWithinBounds

\* C14 (amended): the same, for a client whose reconnectDelay,
\* reconnectDelayMax and randomizationFactor are not negative.
C14_BackoffNonNegativeConfig ==
    (reconnectDelay >= 0 /\ reconnectDelayMax >= 0
                         /\ randomizationFactor >= 0) =>
        BackoffWithinBounds

C14_Witness ==
    /\ waited # NoWait
    /\ waited.n >= 1
    /\ waited.delay = reconnectDelayMax
    /\ waited.u > 0
    /\ waited.wait > waited.delay * 100 * RandomSteps
    /\ reconnectDelay > 0

\* C15: with auto-reconnect enabled a further connect attempt follows every
\* failed attempt and every channel close. Only connect(), subscribe and
\* the reconnect timer start an attempt, so right after a failed attempt or
\* a channel close a retry timer must be pending or an attempt in flight.
C15_RetryFollowsFailure ==
    (autoReconnect /\ (op = "close" \/ (op = "error" /\ Emitted("error")))) =>
        (timers > 0 \/ isConnecting)

\* C16: disconnect(), from whatever state it is called, leaves both socket
\* fields cleared, the tracked room set and the dedup set empty, and emits
\* exactly `disconnected` with scope 'all'; a disconnect() that directly
\* follows another changes no field, listener, socket or timer.
C16_DisconnectIdempotent ==
    [][op' = "disconnect" =>
          /\ socket' = NoSock /\ transactionSocket' = NoSock
          /\ subscribedRooms' = {}
          /\ transactions' = {}
          /\ emitted' = <<EvDisconnected("all")>>
          /\ sent' = {}
          /\ op = "disconnect" => UNCHANGED <<fields, emitter, env>>]_vars

C16_Witness ==
    /\ op = "disconnect"
    /\ preRooms # {}
    /\ \E s \in SockIds : readyState[s] = "closing"
    /\ \E s \in SockIds : readyState[s] = "connecting"

\* C17: unsubscribe(room) of a tracked room removes it from the tracked set
\* and sends one leave frame if the room's channel is open (nothing
\* otherwise); unsubscribe of a room that is not tracked sends no frame;
\* either way nothing else changes.
C17_UnsubscribeLeavesOnce ==
    [][op' = "unsubscribe" =>
          /\ \/ \E r \in subscribedRooms :
                   /\ subscribedRooms' = subscribedRooms \ {r}
                   /\ sent' =
                        IF isOpen(readyState,
                                  IF includes(r, <<"transaction">>)
                                  THEN transactionSocket ELSE socket)
                        THEN {Frame("leave", r,
                                    IF includes(r, <<"transaction">>)
                                    THEN transactionSocket ELSE socket)}
                        ELSE {}
             \/ /\ subscribedRooms' = subscribedRooms
                /\ sent' = {}
          /\ emitted' = <<>>
          /\ UNCHANGED <<socket, transactionSocket, reconnectAttempts,
                         transactions, autoReconnect, isConnecting, emitter,
                         env>>]_vars

\* C20: every join and leave frame, whichever operation sent it, is on a
\* socket of the transaction channel if and only if its room contains
\* "transaction", and on a socket of the main channel otherwise.
C20_RoutedBySubstring ==
    \A f \in sent :
        /\ f.type \in {"join", "leave"}
        /\ f.sock # NoSock
        /\ TypeOf(f.sock) =
              IF includes(f.room, <<"transaction">>) THEN "transaction"
              ELSE "main"

C20_Witness ==
    /\ op = "unsubscribe"
    /\ \E f \in sent : f.type = "leave" /\ TypeOf(f.sock) = "transaction"

\* the socket the transport holds for a channel, in either variant
HeldMain == IF useWorker THEN workerMainSocket ELSE socket
HeldTransaction == IF useWorker THEN workerTransactionSocket ELSE transactionSocket

\* C18: the worker variant is indistinguishable from the in-process one.
\* Two observations that are true of the in-process variant in every state:
\* isConnected() reports true exactly when both channel sockets are held
\* and open, and one step emits at most one `error` event (a failed connect
\* attempt surfaces as exactly one `error`).
C18_WorkerMatchesInProcess ==
    /\ isConnectedWith(useWorker, worker, readyState, socket, transactionSocket)
          <=> (isOpen(readyState, HeldMain)
               /\ isOpen(readyState, HeldTransaction))
    /\ Cardinality({i \in 1..Len(emitted) : emitted[i].ev = "error"}) <= 1

\* C19: in worker mode a room subscribed before the worker exists starts
\* exactly one connect, and once both channel sockets are open the room is
\* in the worker's tracked set and exactly one join frame for it has been
\* sent.
C19_WorkerLazySubscribeJoins ==
    (useWorker /\ lazy # NoRoom) =>
        /\ lazy \in subscribedRooms
        /\ lazyConnects = 1
        /\ (isOpen(readyState, workerMainSocket)
            /\ isOpen(readyState, workerTransactionSocket)) =>
                /\ lazy \in workerSubscribedRooms
                /\ lazyJoins = 1

\* ---- routing and fan-out --------------------------------------------------
\* the last step handled a data frame {type: 'message', room, data}
DataStep == op = "message" /\ inbound.json /\ inbound.type = "message"
\* ... that the dedup filter let through (C5): it carries no transaction
\* id, or the first one of its id
PassedDedup == lastFrame.tx = NoTx \/ lastFrame.nth = 1
\* ... and the router emitted under key
EmittedOn(key) ==
    \E i \in 1..Len(emitted) : emitted[i].ev = "room" /\ emitted[i].key = key
\* the arguments the listener of registration id was invoked with, in order
ArgsOf(id) ==
    LET cs == SelectSeq(calls, LAMBDA c : c.id = id)
    IN  [i \in 1..Len(cs) |-> cs[i].arg]
\* the invocations one delivery of payload d makes of one listener
Invocations(d) ==
    CASE d.kind = "array" -> d.items
      [] d.kind = "object" -> <<d.items[1]>>
      [] OTHER -> <<NullItem>>
\* every listener on key was invoked with the whole payload of the frame
FannedOut(key) ==
    \A i \in DOMAIN handlers :
        handlers[i].room = key
            => ArgsOf(handlers[i].id) = Invocations(inbound.data)

\* C21: a data frame on a price room price:<key> whose payload is an object
\* with token field T (and which the dedup filter of C5 lets through) is
\* emitted under the literal room and under price-by-token:T, and reaches
\* the listeners of both keys; a frame on any other room is emitted under
\* its room alone and invokes only listeners of that room.
C21_DerivedPriceRouting ==
    /\ (DataStep /\ PassedDedup /\ inbound.room[1] = "price"
        /\ inbound.data.kind = "object"
        /\ inbound.data.items[1].token # NoToken) =>
            /\ EmittedOn(inbound.room)
            /\ EmittedOn(PriceByToken(inbound.data.items[1].token))
            /\ FannedOut(inbound.room)
            /\ FannedOut(PriceByToken(inbound.data.items[1].token))
    /\ (DataStep /\ inbound.room[1] # "price") =>
            /\ \A i \in 1..Len(emitted) : emitted[i].key = inbound.room
            /\ \A j \in 1..Len(calls) : \E i \in DOMAIN handlers :
                  /\ handlers[i].id = calls[j].id
                  /\ handlers[i].room = inbound.room

C21_Witness ==
    /\ DataStep
    /\ inbound.room = RoomPrice
    /\ inbound.data = Object(NoTx, "A")
    /\ \E i, j \in DOMAIN handlers :
          /\ handlers[i].room = RoomPrice
          /\ handlers[j].room = PriceByToken("A")
          /\ ArgsOf(handlers[i].id) = <<Item(NoTx, "A")>>
          /\ ArgsOf(handlers[j].id) = <<Item(NoTx, "A")>>

C23_HandleUnsubscribeRemovesOne ==
    /\ [][op' = "off" =>
            /\ \E id \in 1..registered :
                  handlers' = SelectSeq(handlers, LAMBDA h : h.id # id)
            /\ subscribedRooms' = subscribedRooms
            /\ sent' = {}]_vars
    /\ []((DataStep /\ EmittedOn(inbound.room)) =>
            /\ FannedOut(inbound.room)
            /\ \A j \in 1..Len(calls) :
                  \E i \in DOMAIN handlers : handlers[i].id = calls[j].id)

C23_Witness ==
    /\ DataStep
    /\ removed # NoRegistration
    /\ removed.room = inbound.room
    /\ removed.room \in subscribedRooms
    /\ \E i \in DOMAIN handlers :
          /\ handlers[i].room = removed.room
          /\ handlers[i].cb = removed.cb
          /\ ArgsOf(handlers[i].id) # <<>>

\* a frame the in-process router delivers: valid JSON of type 'message',
\* not a duplicate, and not a null payload on a price room
Deliverable ==
    /\ DataStep
    /\ PassedDedup
    /\ ~(inbound.room[1] = "price" /\ inbound.data.kind = "null")

\* C24: a frame that is not valid JSON produces exactly one `error` event
\* and no listener invocation, and changes nothing else: the socket stays
\* open, the tracked rooms, the dedup set and the listeners are as before;
\* and a later deliverable frame on a socket that received such a frame is
\* delivered to every listener of its room.
C24_MalformedFrameHandled ==
    /\ [][(op' = "message" /\ ~inbound'.json) =>
            /\ emitted' = <<EvError>>
            /\ calls' = <<>>
            /\ readyState' = readyState
            /\ subscribedRooms' = subscribedRooms
            /\ transactions' = transactions
            /\ UNCHANGED <<socket, transactionSocket, handlers, listeners,
                           opened>>]_vars
    /\ []((Deliverable /\ lastFrame.sock \in failed) =>
            /\ EmittedOn(inbound.room)
            /\ FannedOut(inbound.room))

C24_Witness ==
    /\ Deliverable
    /\ lastFrame.sock \in failed
    /\ readyState[lastFrame.sock] = "open"
    /\ inbound.data.kind # "array"
    /\ \E i \in DOMAIN handlers :
          /\ handlers[i].room = inbound.room
          /\ Len(ArgsOf(handlers[i].id)) = 1

\* C24, in either variant: the step in which the client handles a frame
\* that is not valid JSON (in worker mode: the worker's report of it)
\* emits exactly one `error` event, no other event, and invokes no listener.
C24_MalformedFrameOneError ==
    (op \in {"message", "main-message"} /\ ~inbound.json) =>
        /\ emitted = <<EvError>>
        /\ calls = <<>>

\* ---- the subscription facade (datastream.subscribe) ----------------------

\* a < b on numbers: every comparison with NaN is false
lessThan(a, b) == ~a.nan /\ ~b.nan /\ a.v < b.v

\* `${percentage}`
numberString(p) == IF p.nan THEN "NaN" ELSE ToString(p.v)

\* The evaluation of one facade expression: the rooms it passes to
\* _subscribe, in order, or a throw before any _subscribe. The handle it
\* returns is the one of the last _subscribe.
Resolves(method, rooms) ==
    [method |-> method, subscribes |-> rooms, throws |-> FALSE,
     market |-> "", percentage |-> Num(0)]

\* subscribe.token(T): the base subscription is made when token() is called
token(tokenAddress) == <<<<"token", ":", tokenAddress>>>>

\* subscribe.tx.wallet(W): the base subscription is made when wallet() is
\* called
txWallet(walletAddress) == <<<<"wallet", ":", walletAddress>>>>

curvePercentage(market, p) ==
    IF lessThan(p, Num(0)) \/ lessThan(Num(100), p)
    THEN [method |-> "curvePercentage", subscribes |-> <<>>, throws |-> TRUE,
          market |-> market, percentage |-> p]
    ELSE [method |-> "curvePercentage",
          subscribes |-> <<<<market, ":", "curve", ":", numberString(p)>>>>,
          throws |-> FALSE, market |-> market, percentage |-> p]

\* a token address, a pool id and a wallet address
T == "A"
P == "P"
W == "W"

\* the calls on datastream.subscribe, with the chained forms
SubscriptionCalls ==
    { Resolves("latest", <<<<"latest">>>>),
      Resolves("graduating", <<<<"graduating">>>>),
      Resolves("graduating:5", <<<<"graduating", ":", "sol", ":", "5">>>>),
      Resolves("graduated", <<<<"graduated">>>>),
      Resolves("metadata", <<<<"metadata", ":", T>>>>),
      Resolves("holders", <<<<"holders", ":", T>>>>),
      Resolves("token", token(T)),
      Resolves("token.all", token(T) \o <<<<"token", ":", T>>>>),
      Resolves("token.primary",
               token(T) \o <<<<"token", ":", T, ":", "primary">>>>),
      Resolves("pool", <<<<"pool", ":", P>>>>),
      Resolves("snipers", <<<<"sniper", ":", T>>>>),
      Resolves("insiders", <<<<"insider", ":", T>>>>),
      Resolves("wallet.balance", <<<<"wallet", ":", W, ":", "balance">>>>),
      Resolves("wallet.tokenBalance",
               <<<<"wallet", ":", W, ":", T, ":", "balance">>>>) }

StatsCalls ==
    { Resolves("stats.token", <<<<"stats", ":", "token", ":", T>>>>),
      Resolves("stats.pool", <<<<"stats", ":", "pool", ":", P>>>>) }

PriceCalls ==
    { Resolves("price.token", <<PriceByToken(T)>>),
      Resolves("price.allPoolsForToken", <<<<"price", ":", T>>>>),
      Resolves("price.pool", <<<<"price", ":", P>>>>) }

TransactionCalls ==
    { Resolves("tx.token", <<<<"transaction", ":", T>>>>),
      Resolves("tx.pool", <<<<"transaction", ":", T, ":", P>>>>),
      Resolves("tx.wallet", txWallet(W)),
      Resolves("tx.wallet.transactions",
               txWallet(W) \o <<<<"wallet", ":", W>>>>),
      Resolves("tx.wallet.balance",
               txWallet(W) \o <<<<"wallet", ":", W, ":", "balance">>>>),
      Resolves("tx.wallet.tokenBalance",
               txWallet(W) \o <<<<"wallet", ":", W, ":", T, ":", "balance">>>>) }

Percentages == {Num(0 - 1), Num(0), Num(30), Num(100), Num(101), NaN}

CurveCalls == {curvePercentage("pumpfun", p) : p \in Percentages}

FacadeCalls ==
    SubscriptionCalls \cup StatsCalls \cup PriceCalls \cup TransactionCalls
        \cup CurveCalls

\* One facade expression, evaluated in one synchronous step: each of its
\* _subscribe calls tracks its room and sends the join on an open channel or
\* calls connect(); after the first connect() of the step a further one
\* returns early.
FacadeCall(c) ==
    /\ Tick
    /\ UNCHANGED <<policy, wk, routing, proc>>
    /\ LET rooms == {c.subscribes[i] : i \in DOMAIN c.subscribes}
           sends == {r \in rooms : subscribeSends(r, socket, transactionSocket,
                                                  readyState)}
       IN /\ subscribedRooms' = subscribedRooms \cup rooms
          /\ sent' = {Frame("join", r, roomSocket(r, socket, transactionSocket))
                         : r \in sends}
          /\ IF sends = rooms
             THEN UNCHANGED <<isConnecting, readyState, attempt>>
             ELSE DoConnect
          /\ lazy' = IF rooms = {} THEN lazy
                     ELSE IF Disconnected
                          THEN c.subscribes[Len(c.subscribes)]
                     ELSE IF lazy \in sends THEN NoRoom ELSE lazy
    /\ call' = [method |-> c.method,
                room |-> IF c.throws THEN NoRoom
                         ELSE c.subscribes[Len(c.subscribes)],
                market |-> c.market, percentage |-> c.percentage]
    /\ threw' = c.throws
    /\ op' = "facade"
    /\ emitted' = <<>>
    /\ lastFrame' = NoFrame
    /\ joined' = Joined(sent', socket, transactionSocket,
                        socket, transactionSocket)
    /\ lazyJoins' = IF lazy' = lazy THEN lazyJoins ELSE 0
    /\ lazyConnects' =
          IF lazy' = NoRoom THEN 0
          ELSE IF Disconnected THEN (IF attempt' # attempt THEN 1 ELSE 0)
          ELSE IF isConnecting
               THEN lazyConnects + (IF attempt' # attempt THEN 1 ELSE 0)
          ELSE lazyConnects
    /\ phase' = "init"
    /\ cancelled' = FALSE
    /\ joinsSince' = Since(sent', phase')
    /\ UNCHANGED <<socket, transactionSocket, reconnectAttempts,
                   transactions, autoReconnect, emitter, opened, timers,
                   preRooms, seenTx, deliveredTx>>

InitFacade ==
    /\ InitWith(MaxFacadeSteps)
    /\ autoReconnect = TRUE
    /\ errorListener = TRUE
    /\ useWorker = FALSE

NextFacade ==
    \/ \E c \in FacadeCalls : FacadeCall(c)
    \/ \E s \in SockIds : SocketOpen(s)

SpecFacade == InitFacade /\ [][NextFacade]_vars

\* the step is a facade call that returned a handle
FacadeReturned == op' = "facade" /\ ~threw'

\* the join frames of the step
JoinRooms == {f.room : f \in {g \in sent' : g.type = "join"}}

\* C25: each call on the subscription facade resolves to one room: the
\* room of the handle it returns is tracked, no other room is added to the
\* tracked set and no join is sent for another room, the chained forms
\* token(T).all(), token(T).primary(), tx.wallet(W).transactions() and
\* tx.wallet(W).balance() included.
C25_FacadeOneRoom ==
    [][FacadeReturned =>
          /\ call'.room \in subscribedRooms'
          /\ subscribedRooms' \ subscribedRooms \subseteq {call'.room}
          /\ JoinRooms \subseteq {call'.room}]_vars

\* the range of a curve percentage
InRange(p) == ~p.nan /\ 0 <= p.v /\ p.v <= 100

CurveRoom == <<call.market, ":", "curve", ":", numberString(call.percentage)>>

\* C26: curvePercentage(market, p) returns the handle of room
\* <market>:curve:<p> exactly when p is in [0,100]; for every other p it
\* throws, tracks no room, sends no frame and starts no connect attempt.
C26_CurvePercentageValidated ==
    [][(op' = "facade" /\ call'.method = "curvePercentage") =>
          IF InRange(call'.percentage)
          THEN /\ ~threw'
               /\ call'.room = CurveRoom'
               /\ CurveRoom' \in subscribedRooms'
          ELSE /\ threw'
               /\ subscribedRooms' = subscribedRooms
               /\ sent' = {}
               /\ attempt' = attempt
               /\ isConnecting' = isConnecting
               /\ readyState' = readyState]_vars

\* C26 for the finite percentages
C26_FinitePercentageValidated ==
    [][(op' = "facade" /\ call'.method = "curvePercentage"
            /\ ~call'.percentage.nan) =>
          IF InRange(call'.percentage)
          THEN /\ ~threw'
               /\ call'.room = CurveRoom'
               /\ CurveRoom' \in subscribedRooms'
          ELSE /\ threw'
               /\ subscribedRooms' = subscribedRooms
               /\ sent' = {}
               /\ attempt' = attempt
               /\ isConnecting' = isConnecting
               /\ readyState' = readyState]_vars

\* ---- event-processor.ts: decodeBinaryEvents -------------------------------

\* A buffer is a sequence of bytes; offsets count from 0. A DataView read
\* outside the buffer throws a RangeError.
inBounds(data, offset, size) == offset + size <= Len(data)

getUint8(data, offset) == data[offset + 1]

\* getUint32(offset, true): little endian
getUint32(data, offset) ==
    data[offset + 1] + 256 * data[offset + 2] + 65536 * data[offset + 3]
        + 16777216 * data[offset + 4]

\* getFloat32(offset, true): sign, 8 exponent bits, 23 fraction bits; the
\* value is computed exactly for zero and for the integer-valued floats,
\* which are the ones the buffers carry
getFloat32(data, offset) ==
    LET e == 2 * (data[offset + 4] % 128) + (data[offset + 3] \div 128)
        m == data[offset + 1] + 256 * data[offset + 2]
                + 65536 * (data[offset + 3] % 128)
        sign == IF data[offset + 4] >= 128 THEN 0 - 1 ELSE 1
    IN IF e = 0 /\ m = 0 THEN 0
       ELSE IF e >= 150 THEN sign * (8388608 + m) * pow2(e - 150)
       ELSE sign * ((8388608 + m) \div pow2(150 - e))

\* data.slice(start, end): the end is clamped to the length of the buffer
slice(data, start, end) ==
    SubSeq(data, start + 1, IF end < Len(data) THEN end ELSE Len(data))

\* one ASCII byte as a character; any other byte decodes to U+FFFD
Char(b) ==
    CASE b = 65 -> "A"
      [] b = 66 -> "B"
      [] b = 67 -> "C"
      [] OTHER -> "?"

\* new TextDecoder().decode(bytes)
RECURSIVE TextDecoder_decode(_)
TextDecoder_decode(bytes) ==
    IF bytes = <<>> THEN ""
    ELSE Char(Head(bytes)) \o TextDecoder_decode(Tail(bytes))

\* wallets[walletIndex] for an index outside the table
Undefined == "undefined"

RangeError == [error |-> "RangeError", events |-> <<>>]

eventType_One(typeCode) == IF typeCode = 1 THEN "sell" ELSE "buy"

\* typeCode === 0 ? 'buy' : 'sell'
eventType(typeCode) == IF typeCode = 0 THEN "buy" ELSE "sell"

\* the wallet loop: [threw, offset, wallets]
RECURSIVE readWallets(_, _, _, _)
readWallets(data, offset, n, wallets) ==
    IF n = 0 THEN [threw |-> FALSE, offset |-> offset, wallets |-> wallets]
    ELSE IF ~inBounds(data, offset, 1)
    THEN [threw |-> TRUE, offset |-> offset, wallets |-> wallets]
    ELSE LET length == getUint8(data, offset)
             walletBytes == slice(data, offset + 1, offset + 1 + length)
         IN readWallets(data, offset + 1 + length, n - 1,
                        Append(wallets, TextDecoder_decode(walletBytes)))

\* the trade loop
RECURSIVE readTrades(_, _, _, _, _)
readTrades(data, offset, n, wallets, evs) ==
    IF n = 0 THEN [error |-> "none", events |-> evs]
    ELSE IF ~(/\ inBounds(data, offset, 4)
              /\ inBounds(data, offset + 4, 4)
              /\ inBounds(data, offset + 8, 4)
              /\ inBounds(data, offset + 12, 4)
              /\ inBounds(data, offset + 16, 1)
              /\ inBounds(data, offset + 17, 4))
    THEN RangeError
    ELSE LET walletIndex == getUint32(data, offset)
             typeCode == getUint8(data, offset + 16)
             timeInSeconds == getUint32(data, offset + 17)
             event == [wallet |-> IF walletIndex < Len(wallets)
                                  THEN wallets[walletIndex + 1]
                                  ELSE Undefined,
                       amount |-> getFloat32(data, offset + 4),
                       priceUsd |-> getFloat32(data, offset + 8),
                       volume |-> getFloat32(data, offset + 12),
                       type |-> eventType(typeCode),
                       time |-> timeInSeconds * 1000]
         IN readTrades(data, offset + 21, n - 1, wallets, Append(evs, event))

decodeBinaryEvents(data) ==
    IF ~inBounds(data, 0, 4) THEN RangeError
    ELSE LET w == readWallets(data, 4, getUint32(data, 0), <<>>)
         IN IF w.threw \/ ~inBounds(data, w.offset, 4) THEN RangeError
            ELSE readTrades(data, w.offset + 4, getUint32(data, w.offset),
                            w.wallets, <<>>)

\* The buffers: the layout of section 4.5 for a wallet table and a list of
\* trades, and every prefix of it.
u32le(n) ==
    <<n % 256, (n \div 256) % 256, (n \div 65536) % 256,
      (n \div 16777216) % 256>>

\* the bits of the floats 1.0 to 4.0
float32Bits(v) ==
    CASE v = 1 -> 1065353216
      [] v = 2 -> 1073741824
      [] v = 3 -> 1077936128
      [] v = 4 -> 1082130432

RECURSIVE walletEntries(_)
walletEntries(ws) ==
    IF ws = <<>> THEN <<>>
    ELSE <<Len(Head(ws))>> \o Head(ws) \o walletEntries(Tail(ws))

tradeRecord(t) ==
    u32le(t.walletIndex) \o u32le(float32Bits(t.amount))
        \o u32le(float32Bits(t.priceUsd)) \o u32le(float32Bits(t.volume))
        \o <<t.typeCode>> \o u32le(t.timeSeconds)

RECURSIVE tradeRecords(_)
tradeRecords(ts) ==
    IF ts = <<>> THEN <<>>
    ELSE tradeRecord(Head(ts)) \o tradeRecords(Tail(ts))

layoutBytes(l) ==
    u32le(Len(l.wallets)) \o walletEntries(l.wallets)
        \o u32le(Len(l.trades)) \o tradeRecords(l.trades)

\* the wallets A and BB, as bytes
WalletTables == {<<>>, <<<<65>>>>, <<<<65>>, <<66, 66>>>>}

\* trades that name the wallet at index 0, 1 or 2, of type code 0, 1 or 2
TradePool ==
    {[walletIndex |-> i, amount |-> 1, priceUsd |-> 2 + (c % 2), volume |-> 4,
      typeCode |-> c, timeSeconds |-> 1000 + c] : i \in 0..2, c \in 0..2}

Layouts ==
    {[wallets |-> ws, trades |-> ts] :
        ws \in WalletTables,
        ts \in UNION {[1..n -> TradePool] : n \in 0..MaxTrades}}

Decode ==
    /\ Tick
    /\ op # "decode"
    /\ decoded' = decodeBinaryEvents(buffer)
    /\ op' = "decode"
    /\ UNCHANGED <<fields, emitter, env, emitted, sent, lastFrame, hist,
                   policy, wk, routing, facade, buffer, events, stats,
                   layout, quotedPrice, clock, job>>

InitDecode ==
    /\ InitDatastream(1)
    /\ autoReconnect = TRUE
    /\ errorListener = TRUE
    /\ useWorker = FALSE
    /\ layout \in Layouts
    /\ \E n \in 0..Len(layoutBytes(layout)) :
          buffer = SubSeq(layoutBytes(layout), 1, n)
    /\ decoded = NotDecoded
    /\ events = <<>>
    /\ stats = NotProcessed
    /\ quotedPrice = 0
    /\ clock = 0
    /\ job = NoJob

NextDecode == Decode

SpecDecode == InitDecode /\ [][NextDecode]_vars

\* the buffer is the whole layout
Complete == buffer = layoutBytes(layout)

\* every trade record names an entry of the wallet table
IndexesInRange ==
    \A i \in DOMAIN layout.trades :
        layout.trades[i].walletIndex < Len(layout.wallets)

\* C27: a well-formed buffer decodes to tradeCount events in record order;
\* each event has the wallet of the table entry at its walletIndex, type
\* buy iff its typeCode is 0 and sell otherwise, and time timeSeconds * 1000.
C27_DecodeWellFormed ==
    (op = "decode" /\ Complete /\ IndexesInRange) =>
        /\ decoded.error = "none"
        /\ Len(decoded.events) = Len(layout.trades)
        /\ \A i \in DOMAIN layout.trades :
              LET t == layout.trades[i]
                  e == decoded.events[i]
              IN /\ e.wallet = TextDecoder_decode(layout.wallets[t.walletIndex + 1])
                 /\ e.type = (IF t.typeCode = 0 THEN "buy" ELSE "sell")
                 /\ e.time = t.timeSeconds * 1000

\* wallets [A, BB], trades at 1000 s and 1001 s
C27_Witness ==
    /\ op = "decode"
    /\ Complete
    /\ Len(layout.wallets) = 2
    /\ Len(decoded.events) = 2
    /\ decoded.events[1].wallet = "A" /\ decoded.events[1].time = 1000000
    /\ decoded.events[1].type = "buy"
    /\ decoded.events[2].wallet = "BB" /\ decoded.events[2].time = 1001000
    /\ decoded.events[2].type = "sell"

\* the result of a rejected buffer: an error and no event
Rejected == decoded.error # "none" /\ decoded.events = <<>>

\* a non-empty buffer shorter than its counts imply
Truncated == buffer # <<>> /\ ~Complete

\* C28: a buffer with a trade whose walletIndex is >= walletCount, and a
\* buffer shorter than its wallet and trade counts imply, are rejected with
\* an error and no partial result.
C28_DecodeRejectsMalformed ==
    (op = "decode" /\ (Truncated \/ (Complete /\ ~IndexesInRange))) => Rejected

\* C28 for the truncated buffers
C28_DecodeRejectsTruncated == (op = "decode" /\ Truncated) => Rejected

\* C29: the empty buffer decodes to the empty sequence, without an error.
C29_DecodeEmptyBuffer ==
    (op = "decode" /\ buffer = <<>>) =>
        decoded = [error |-> "none", events |-> <<>>]

\* ---- event-processor.ts: processEvents -----------------------------------

\* the timeframes, sorted by seconds
timeframeBoundaries ==
    << [key |-> "1m", seconds |-> 60],
       [key |-> "5m", seconds |-> 300],
       [key |-> "15m", seconds |-> 900],
       [key |-> "30m", seconds |-> 1800],
       [key |-> "1h", seconds |-> 3600],
       [key |-> "2h", seconds |-> 7200],
       [key |-> "3h", seconds |-> 10800],
       [key |-> "4h", seconds |-> 14400],
       [key |-> "5h", seconds |-> 18000],
       [key |-> "6h", seconds |-> 21600],
       [key |-> "12h", seconds |-> 43200],
       [key |-> "24h", seconds |-> 86400] >>

timeframes ==
    [k \in {timeframeBoundaries[j].key : j \in DOMAIN timeframeBoundaries} |->
        (CHOOSE b \in {timeframeBoundaries[j] : j \in DOMAIN timeframeBoundaries}
            : b.key = k).seconds]

\* Date.now(), in milliseconds
Now == 100000000

\* stats[key] before the pass
newPeriod ==
    [buys |-> 0, sells |-> 0, buyVolume |-> 0, sellVolume |-> 0,
     buyers |-> {}, sellers |-> {}, totalTransactions |-> 0,
     totalVolume |-> 0, totalWallets |-> {}, initialPrice |-> 0,
     lastPrice |-> 0, hasData |-> FALSE]

skipsTimeframe_Strict(event, seconds) == Now - event.time >= seconds * 1000

\* timeDiff > seconds, with currentTimestamp = Date.now() / 1000 and
\* eventTime = timestamp / 1000
skipsTimeframe(event, seconds) == Now - event.time > seconds * 1000

addEvent_NoWallets(period, event) ==
    LET counted == [period EXCEPT
                       !.initialPrice = IF period.hasData THEN @
                                        ELSE event.priceUsd,
                       !.hasData = TRUE,
                       !.totalTransactions = @ + 1,
                       !.totalVolume = @ + event.volume,
                       !.lastPrice = event.priceUsd]
    IN IF event.type = "buy"
       THEN [counted EXCEPT !.buys = @ + 1,
                            !.buyVolume = @ + event.volume,
                            !.buyers = @ \cup {event.wallet}]
       ELSE [counted EXCEPT !.sells = @ + 1,
                            !.sellVolume = @ + event.volume]

\* the body of the inner loop for one timeframe the event applies to
addEvent(period, event) ==
    LET first == [period EXCEPT
                     !.initialPrice = IF period.hasData THEN @
                                      ELSE event.priceUsd,
                     !.hasData = TRUE]
        counted == [first EXCEPT
                       !.totalTransactions = @ + 1,
                       !.totalVolume = @ + event.volume,
                       !.totalWallets = @ \cup {event.wallet},
                       !.lastPrice = event.priceUsd]
    IN IF event.type = "buy"
       THEN [counted EXCEPT !.buys = @ + 1,
                            !.buyVolume = @ + event.volume,
                            !.buyers = @ \cup {event.wallet}]
       ELSE [counted EXCEPT !.sells = @ + 1,
                            !.sellVolume = @ + event.volume,
                            !.sellers = @ \cup {event.wallet}]

\* the single pass through the events
RECURSIVE pass(_, _)
pass(periods, evs) ==
    IF evs = <<>> THEN periods
    ELSE LET event == Head(evs)
         IN pass(IF event.type # "buy" /\ event.type # "sell" THEN periods
                 ELSE [k \in DOMAIN periods |->
                          IF skipsTimeframe(event, timeframes[k])
                          THEN periods[k]
                          ELSE addEvent(periods[k], event)],
                 Tail(evs))

\* a quotient that is not evaluated: num / den
Quotient(num, den) == [num |-> num, den |-> den]

\* the record reported for a timeframe that has data
TimeframeStats(period, currentPrice) ==
    [buyers |-> Cardinality(period.buyers),
     sellers |-> Cardinality(period.sellers),
     volume |-> [buys |-> period.buyVolume, sells |-> period.sellVolume,
                 total |-> period.totalVolume],
     transactions |-> period.totalTransactions,
     buys |-> period.buys,
     sells |-> period.sells,
     wallets |-> Cardinality(period.totalWallets),
     price |-> period.initialPrice,
     priceChangePercentage |->
        IF period.initialPrice > 0
        THEN Quotient(100 * (currentPrice - period.lastPrice), period.lastPrice)
        ELSE Quotient(0, 1)]

\* processEvents of an events array: the map from the timeframes that have
\* data to their records
processEvents(evs) ==
    IF Len(evs) = 0 THEN <<>>
    ELSE LET currentPrice == evs[1].priceUsd
             periods == pass([k \in DOMAIN timeframes |-> newPeriod], evs)
         IN [k \in {t \in DOMAIN timeframes : periods[t].hasData} |->
                TimeframeStats(periods[k], currentPrice)]

\* The events: buys and sells of wallets A and BB that are 30 s, 60 s, 200 s
\* and 90000 s old, an event of another type and a sell at price 0.
Event(type, wallet, age) ==
    [wallet |-> wallet, amount |-> 1, priceUsd |-> 2 + (age % 7),
     volume |-> IF type = "buy" THEN 4 ELSE 3, type |-> type,
     time |-> Now - age * 1000]

EventPool ==
    {Event(ty, w, age) : ty \in {"buy", "sell"}, w \in {"A", "BB"},
                         age \in {30, 60, 200, 90000}}
        \cup {Event("transfer", "A", 30),
              [Event("sell", "A", 30) EXCEPT !.priceUsd = 0]}

ProcessEvents ==
    /\ Tick
    /\ op # "process"
    /\ stats' = [error |-> "none", frames |-> processEvents(events)]
    /\ op' = "process"
    /\ UNCHANGED <<fields, emitter, env, emitted, sent, lastFrame, hist,
                   policy, wk, routing, facade, buffer, decoded, events,
                   layout, quotedPrice, clock, job>>

InitStats ==
    /\ InitDatastream(1)
    /\ autoReconnect = TRUE
    /\ errorListener = TRUE
    /\ useWorker = FALSE
    /\ events \in UNION {[1..n -> EventPool] : n \in 0..MaxEvents}
    /\ stats = NotProcessed
    /\ buffer = <<>>
    /\ decoded = NotDecoded
    /\ layout = NoLayout
    /\ quotedPrice \in {4, 5}
    /\ clock = Now
    /\ job = NoJob

NextStats == ProcessEvents

SpecStats == InitStats /\ [][NextStats]_vars

\* the buy/sell events with now - eventTime <= S seconds
Qualifying(S) ==
    {i \in DOMAIN events :
        /\ events[i].type \in {"buy", "sell"}
        /\ Now - events[i].time <= S * 1000}

WalletsOf(is) == {events[i].wallet : i \in is}

\* C30: a timeframe of S seconds is in the result of processEvents iff some
\* buy/sell event has now - eventTime <= S, and its transactions, buys,
\* sells, buyers, sellers and wallets are the number of those events, of the
\* buys and of the sells among them, and of the distinct buying, selling and
\* all wallets among them; a timeframe without such an event is omitted.
C30_TimeframeCounts ==
    op = "process" =>
        \A k \in DOMAIN timeframes :
            LET q == Qualifying(timeframes[k])
                b == {i \in q : events[i].type = "buy"}
                s == {i \in q : events[i].type = "sell"}
            IN /\ k \in DOMAIN stats.frames <=> q # {}
               /\ q # {} =>
                     /\ stats.frames[k].transactions = Cardinality(q)
                     /\ stats.frames[k].buys = Cardinality(b)
                     /\ stats.frames[k].sells = Cardinality(s)
                     /\ stats.frames[k].buyers = Cardinality(WalletsOf(b))
                     /\ stats.frames[k].sellers = Cardinality(WalletsOf(s))
                     /\ stats.frames[k].wallets = Cardinality(WalletsOf(q))

\* three buys at now-30s, now-200s, now-200s: 1 transaction in 1m, 3 in 5m
C30_Witness ==
    /\ op = "process"
    /\ Len(events) = 3
    /\ \A i \in 1..3 : events[i].type = "buy"
    /\ events[1].time = Now - 30000
    /\ events[2].time = Now - 200000
    /\ events[3].time = Now - 200000
    /\ stats.frames["1m"].transactions = 1
    /\ stats.frames["5m"].transactions = 3
    /\ "24h" \in DOMAIN stats.frames

\* the larger of two numbers
Larger(a, b) == IF a >= b THEN a ELSE b

\* the counts of a reported timeframe
CountFields(f) ==
    <<f.transactions, f.buys, f.sells, f.buyers, f.sellers, f.wallets>>

\* C40: windows are nested: when the timeframe of S1 seconds is reported,
\* every timeframe of S2 > S1 seconds is reported too, with transactions,
\* buys, sells, buyers, sellers and wallets at least those of S1; in every
\* reported timeframe buys + sells = transactions and
\* max(buyers, sellers) <= wallets <= buyers + sellers.
C40_WindowsNested ==
    op = "process" =>
        /\ \A k1 \in DOMAIN stats.frames :
              \A k2 \in DOMAIN timeframes :
                  timeframes[k2] > timeframes[k1] =>
                      /\ k2 \in DOMAIN stats.frames
                      /\ \A n \in 1..6 :
                            CountFields(stats.frames[k2])[n]
                                >= CountFields(stats.frames[k1])[n]
        /\ \A k \in DOMAIN stats.frames :
              LET f == stats.frames[k]
              IN /\ f.buys + f.sells = f.transactions
                 /\ Larger(f.buyers, f.sellers) <= f.wallets
                 /\ f.wallets <= f.buyers + f.sellers

\* 1m is reported, 5m holds more events, of buyers and of sellers
C40_Witness ==
    /\ op = "process"
    /\ "1m" \in DOMAIN stats.frames
    /\ stats.frames["5m"].transactions > stats.frames["1m"].transactions
    /\ stats.frames["5m"].buyers > 0
    /\ stats.frames["5m"].sellers > 0
    /\ stats.frames["5m"].wallets = 2

\* the first and the last qualifying event of a timeframe, in list order
FirstOf(q) == events[CHOOSE i \in q : \A j \in q : i <= j]
LastOf(q) == events[CHOOSE i \in q : \A j \in q : j <= i]

\* the price and the price change of every reported timeframe, for a
\* current price c
PricesFor(c) ==
    \A k \in DOMAIN stats.frames :
        LET q == Qualifying(timeframes[k])
        IN /\ stats.frames[k].price = FirstOf(q).priceUsd
           /\ stats.frames[k].priceChangePercentage =
                 IF FirstOf(q).priceUsd > 0
                 THEN Quotient(100 * (c - LastOf(q).priceUsd),
                               LastOf(q).priceUsd)
                 ELSE Quotient(0, 1)

\* C33: the reported price of a timeframe is the price of its first
\* qualifying event in list order, and priceChangePercentage is
\* 100 * (currentPrice - lastPrice) / lastPrice for the current price the
\* caller supplies and the price of the last qualifying event, and 0 when
\* the initial price is not positive.
C33_PriceChangeOfSuppliedPrice == op = "process" => PricesFor(quotedPrice)

\* C33 with the price of the first event of the list as the current price
C33_PriceChangeOfFirstEvent ==
    (op = "process" /\ events # <<>>) => PricesFor(events[1].priceUsd)

\* ---- event-processor.ts: processEventsAsync ------------------------------

chunkTimestamp_Clock(j, now) == now

\* the timestamp a chunk compares with: currentTimestamp, read once at the
\* call
chunkTimestamp(j, now) == j.currentTimestamp

nextChunk_Overlap(chunk) == chunk + CHUNK_SIZE - 1

\* chunk += CHUNK_SIZE
nextChunk(chunk) == chunk + CHUNK_SIZE

\* the loop of one chunk over its events
RECURSIVE passChunk(_, _, _)
passChunk(periods, evs, currentTimestamp) ==
    IF evs = <<>> THEN periods
    ELSE LET event == Head(evs)
         IN passChunk(
                IF event.type # "buy" /\ event.type # "sell" THEN periods
                ELSE [k \in DOMAIN periods |->
                         IF currentTimestamp - event.time > timeframes[k] * 1000
                         THEN periods[k]
                         ELSE addEvent(periods[k], event)],
                Tail(evs), currentTimestamp)

\* the part of proc an asynchronous call leaves alone
AsyncFrame ==
    UNCHANGED <<fields, emitter, env, emitted, sent, lastFrame, hist, left,
                policy, wk, routing, facade, buffer, decoded, events, stats,
                layout, quotedPrice>>

\* processEventsAsync(events, onProgress) up to its first await: an empty
\* list resolves to {} at once, otherwise the locals are set up and the
\* first setTimeout(0) is pending
ProcessEventsAsync(onProgress) ==
    /\ job.state = "idle"
    /\ job' = IF Len(events) = 0
              THEN [NoJob EXCEPT !.state = "done", !.onProgress = onProgress]
              ELSE [NoJob EXCEPT
                       !.state = "waiting",
                       !.onProgress = onProgress,
                       !.periods = [k \in DOMAIN timeframes |-> newPeriod],
                       !.currentPrice = events[1].priceUsd,
                       !.currentTimestamp = clock,
                       !.yields = 1]
    /\ op' = "process-async"
    /\ UNCHANGED clock
    /\ AsyncFrame

\* The pending setTimeout callback runs one chunk, reports the progress and
\* resolves; the loop then either sets the next setTimeout or transforms the
\* periods into the result.
RunChunk ==
    /\ job.state = "waiting"
    /\ LET end == IF job.chunk + CHUNK_SIZE < Len(events)
                  THEN job.chunk + CHUNK_SIZE ELSE Len(events)
           periods == passChunk(job.periods,
                                SubSeq(events, job.chunk + 1, end),
                                chunkTimestamp(job, clock))
           more == nextChunk(job.chunk) < Len(events)
       IN job' = [job EXCEPT
                     !.periods = periods,
                     !.chunks = @ + 1,
                     !.processed = @ \o [i \in 1..(end - job.chunk) |->
                                            job.chunk + i],
                     !.progress = IF job.onProgress
                                  THEN Append(@, Quotient(end * 100, Len(events)))
                                  ELSE @,
                     !.chunk = nextChunk(job.chunk),
                     !.yields = IF more THEN @ + 1 ELSE @,
                     !.state = IF more THEN "waiting" ELSE "done",
                     !.result =
                        IF more THEN @
                        ELSE [k \in {t \in DOMAIN timeframes : periods[t].hasData}
                                 |-> TimeframeStats(periods[k], job.currentPrice)]]
    /\ op' = "chunk"
    /\ UNCHANGED clock
    /\ AsyncFrame

\* what runs at a yield: other callbacks, while time passes
Elapse ==
    /\ job.state = "waiting"
    /\ clock = Now
    /\ clock' = Now + 70000
    /\ op' = "elapse"
    /\ UNCHANGED job
    /\ AsyncFrame

AsyncPool ==
    {Event("buy", "A", 30), Event("sell", "BB", 30), Event("sell", "A", 60),
     Event("buy", "BB", 200), Event("sell", "A", 90000),
     Event("transfer", "A", 30)}

InitAsync ==
    /\ InitDatastream(1)
    /\ autoReconnect = TRUE
    /\ errorListener = TRUE
    /\ useWorker = FALSE
    /\ events \in UNION {[1..n -> AsyncPool] : n \in 0..MaxEvents}
    /\ stats = NotProcessed
    /\ buffer = <<>>
    /\ decoded = NotDecoded
    /\ layout = NoLayout
    /\ quotedPrice = 0
    /\ clock = Now
    /\ job = NoJob

NextAsync ==
    \/ \E onProgress \in BOOLEAN : ProcessEventsAsync(onProgress)
    \/ RunChunk
    \/ Elapse

SpecAsync == InitAsync /\ [][NextAsync]_vars

\* a pending setTimeout(0) callback eventually runs
SpecAsyncFair == SpecAsync /\ WF_vars(RunChunk)

\* C31: the result of processEventsAsync is the result of processEvents on
\* the same list for the same now, whatever the number of chunks and
\* whatever ran at the yields.
C31_AsyncEqualsSync ==
    job.state = "done" => job.result = processEvents(events)

\* a call of several chunks completed with time passing at a yield
C31_Witness ==
    /\ job.state = "done"
    /\ job.chunks > 1
    /\ clock # Now
    /\ DOMAIN job.result # {}
    /\ "1m" \notin DOMAIN job.result

\* ceil(n / CHUNK_SIZE)
CeilChunks(n) == (n + CHUNK_SIZE - 1) \div CHUNK_SIZE

\* C32: on n > 0 events processEventsAsync terminates after
\* ceil(n / CHUNK_SIZE) chunks, with one yield before each chunk, every
\* event processed once in input order, and one progress call per chunk
\* with strictly increasing values, the last one denoting completion.
C32_AsyncChunks ==
    /\ [](job.chunks <= CeilChunks(Len(events)) /\ job.yields <= job.chunks + 1)
    /\ []((job.state = "waiting") => job.yields = job.chunks + 1)
    /\ []((job.state = "done" /\ Len(events) > 0) =>
            /\ job.chunks = CeilChunks(Len(events))
            /\ job.yields = job.chunks
            /\ job.processed = [i \in 1..Len(events) |-> i]
            /\ job.onProgress =>
                  /\ Len(job.progress) = job.chunks
                  /\ \A i \in 1..(Len(job.progress) - 1) :
                        job.progress[i].num < job.progress[i + 1].num
                  /\ \A i \in DOMAIN job.progress :
                        job.progress[i].den = Len(events)
                  /\ job.progress[Len(job.progress)].num
                        = 100 * job.progress[Len(job.progress)].den)
    /\ ((job.state = "waiting") ~> (job.state = "done"))

\* a call with a progress callback completed in two chunks
C32_Witness ==
    /\ job.state = "done"
    /\ job.onProgress
    /\ Len(events) > CHUNK_SIZE
    /\ job.chunks = 2
    /\ Len(job.progress) = 2

\* ---- socket references, reconnect timers, `connected` ---------------------

\* the socket whose onclose ran in the step
ClosedBy(s) ==
    /\ op' = "close"
    /\ readyState[s] # "closed"
    /\ readyState'[s] = "closed"

\* the socket the field of a channel holds
Held(t) == IF t = "main" THEN socket ELSE transactionSocket

\* s is superseded: the field of its channel holds another socket
Superseded(s) == Held(TypeOf(s)) # NoSock /\ Held(TypeOf(s)) # s

\* C34: a channel's socket reference is cleared only by the close of the
\* socket it refers to or by disconnect(); the close of a superseded socket
\* of the channel leaves the reference to the live socket alone and
\* triggers no reconnect.
C34_ReferenceFollowsLiveSocket ==
    [][/\ \A t \in {"main", "transaction"} :
             (Held(t) # NoSock /\ Held(t)' = NoSock) =>
                 (op' = "disconnect" \/ ClosedBy(Held(t)))
       /\ \A s \in SockIds :
             (ClosedBy(s) /\ Superseded(s)) =>
                 /\ socket' = socket
                 /\ transactionSocket' = transactionSocket
                 /\ timers' = timers
                 /\ emitted' = <<>>]_vars

\* C35: at most one reconnect timer is pending at any time: a close or a
\* failure that arrives while a retry is pending, and the second close of
\* an outage, schedule no further retry.
C35_OneReconnectTimer == timers <= 1

\* C36: whenever `connected` is emitted both channel sockets are held and
\* open: isConnected() is true.
C36_ConnectedMeansIsConnected == Emitted("connected") => isConnected

\* the catch block of connect() ran in the step
AttemptFailed ==
    \E a \in Attempts : attempt[a] = "pending" /\ attempt'[a] = "rejected"

\* C37: with auto-reconnect enabled a failed connect attempt schedules a
\* retry (one more timer, `reconnecting` emitted), with or without a
\* listener for `error`.
C37_RetryWithoutErrorListener ==
    [][(AttemptFailed /\ autoReconnect) =>
          /\ timers' = timers + 1
          /\ \E i \in 1..Len(emitted') : emitted'[i].ev = "reconnecting"]_vars

\* C37 for a client with an `error` listener
C37_RetryWithErrorListener ==
    [][(AttemptFailed /\ autoReconnect /\ errorListener) =>
          /\ timers' = timers + 1
          /\ \E i \in 1..Len(emitted') : emitted'[i].ev = "reconnecting"]_vars

\* ---- the dedup set: rooms, channels, array payloads -----------------------

\* the top-level tx of the frame handled in the step, if it is a data frame
\* that carries one
InboundTx ==
    IF inbound'.json /\ inbound'.type = "message"
    THEN payloadTx(inbound'.data) ELSE NoTx

\* C38: the dedup set is keyed by the transaction id alone and shared by
\* all rooms and both channels: a message whose tx is in the set is dropped
\* whatever its room and its socket (no event, no listener call), and the tx
\* of every message that is not dropped is in the set afterwards.
C38_DedupAcrossRooms ==
    [][(op' = "message" /\ InboundTx # NoTx) =>
          /\ InboundTx \in transactions =>
                (emitted' = <<>> /\ calls' = <<>>
                    /\ transactions' = transactions)
          /\ InboundTx \in transactions']_vars

\* a tx delivered on one room and channel arrives on the other room and
\* channel, for which a listener is registered, and is dropped
C38_Witness ==
    /\ op = "message"
    /\ lastFrame.tx # NoTx
    /\ lastFrame.nth = 2
    /\ carrier.room # NoRoom
    /\ carrier.room # inbound.room
    /\ TypeOf(carrier.sock) # TypeOf(lastFrame.sock)
    /\ \E i \in DOMAIN handlers : handlers[i].room = inbound.room
    /\ calls = <<>>
    /\ emitted = <<>>

\* the elements of the array payload handled in the step that carry a tx
ArrayTxs ==
    {inbound'.data.items[i].tx : i \in DOMAIN inbound'.data.items} \ {NoTx}

\* C39: an array payload is neither checked against the dedup set nor
\* added to it: it is emitted to the listeners of its room with every
\* element, also the elements whose tx is in the dedup set, and the dedup
\* set is unchanged.
C39_ArraysNotDeduplicated ==
    [][(op' = "message" /\ inbound'.json /\ inbound'.type = "message"
            /\ inbound'.data.kind = "array") =>
          /\ transactions' = transactions
          /\ EmittedOn(inbound.room)'
          /\ \A i \in DOMAIN handlers :
                handlers[i].room = inbound'.room =>
                    Len(ArgsOf(handlers[i].id)') = Len(inbound'.data.items)]_vars

\* an array with an element whose tx is in the dedup set is delivered to a
\* listener, element by element
C39_Witness ==
    /\ op = "message"
    /\ inbound.data.kind = "array"
    /\ \E i \in DOMAIN inbound.data.items :
          /\ inbound.data.items[i].tx # NoTx
          /\ inbound.data.items[i].tx \in transactions
    /\ \E i \in DOMAIN handlers :
          /\ handlers[i].room = inbound.room
          /\ Len(ArgsOf(handlers[i].id)) = Len(inbound.data.items)

====
